---------------------------- MODULE Spec2Model ----------------------------
(***************************************************************************)
(* Atomic cross-chain transactions of the EVM plugin: UnsignedImportTx and *)
(* UnsignedExportTx (structural Verify, SemanticVerify, EVMStateTransfer,  *)
(* AtomicOps), as found in src/peer/waiting_handler.go, with the tests of  *)
(* src/plugin/evm/factory.go as the reference for the helpers whose code   *)
(* is not part of the excerpt.                                             *)
(***************************************************************************)
EXTENDS Integers, Sequences, FiniteSets, TLC

VARIABLES
    utx,          \* the unsigned transaction an operation was last applied to
    creds,        \* the credentials of the signed transaction wrapping utx
    rules,        \* params.Rules: the active phase flags
    baseFee,      \* the base fee handed to SemanticVerify
    err,          \* the error returned by the last operation (Pending before)
    op,           \* the name of the last operation
    state,        \* state.StateDB: balances, multi-coin balances, nonces
    state0,       \* the ledger as it was before the last operation
    sharedMemory, \* the UTXO ids present in the peer chain's shared memory
    blocks,       \* the block tree: id -> [parent, status, tx]
    bootstrapped, \* vm.bootstrapped
    parent,       \* the parent block id of the last SemanticVerify
    ret,          \* what the last operation returned besides its error
    am,           \* accounts.Manager: backends, updaters, updates, axiawallets, term
    backendWallets, \* the wallets each backend is currently aware of
    calls,        \* the calls of AddBackend and Close: where each one stands
    update,       \* the goroutine Manager.update: its position and last event
    hub,          \* keystore.Hub: updating, its subscriptions and updaters
    handler       \* peer.waitingResponseHandler, its channel and its goroutines

(* The variables of the atomic transactions, and those of the account      *)
(* manager, of the smartcard hub and of the response handler               *)
atomicTxVars == <<utx, creds, rules, baseFee, err, op, state, state0,
                  sharedMemory, blocks, bootstrapped, parent, ret>>
managerVars == <<am, backendWallets, calls, update>>
concurrentVars == <<am, backendWallets, calls, update, hub, handler>>

vars == <<utx, creds, rules, baseFee, err, op, state, state0, sharedMemory,
          blocks, bootstrapped, parent, ret, am, backendWallets, calls,
          update, hub, handler>>

---------------------------------------------------------------------------
(* Bounds of the model *)

MaxIns == 2
MaxOuts == 2

(* All sequences over S of length at most n *)
SeqUpTo(S, n) == UNION {[1..k -> S] : k \in 0..n}

---------------------------------------------------------------------------
(* Values *)

Nil == "nil"
Pending == "pending"

(* snow.Context: the identifiers the checks compare against.  Addresses    *)
(* and asset ids are numbers so that byte order is numeric order.          *)
ctx == [NetworkID |-> 5, ChainID |-> "C", SwapChainID |-> "X",
        SubnetID |-> "primary", AXCAssetID |-> 1]

PlatformChainID == "P"
UnknownChainID == "Z"
OtherSubnetChainID == "S"
Chains == {ctx.ChainID, ctx.SwapChainID, PlatformChainID, UnknownChainID,
           OtherSubnetChainID}

(* Asset ids: the native asset and one other asset; addresses *)
AssetIDs == {ctx.AXCAssetID, ctx.AXCAssetID + 1}
ANTAssetID == ctx.AXCAssetID + 1
Addresses == {1, 2}

(* ctx.SNLookup.SubnetID: the chains whose subnet is known *)
SubnetOf(chainID) ==
    IF chainID \in {ctx.ChainID, ctx.SwapChainID, PlatformChainID}
    THEN "primary"
    ELSE IF chainID = OtherSubnetChainID THEN "other" ELSE Nil

(* verify.SameSubnet / verify.SameAllychain *)
SameSubnet(c, peerChainID) ==
    IF peerChainID = c.ChainID THEN "errSameChainID"
    ELSE IF SubnetOf(peerChainID) = Nil THEN "errFailedSubnetLookup"
    ELSE IF SubnetOf(peerChainID) # c.SubnetID THEN "errMismatchedSubnetIDs"
    ELSE Nil

(* params.Rules: the four flags the atomic transactions read *)
Phase(n) == [IsApricotPhase1 |-> n >= 1, IsApricotPhase2 |-> n >= 2,
             IsApricotPhase3 |-> n >= 3, IsApricotPhase5 |-> n >= 5]
RulesSet == {Phase(n) : n \in {0, 1, 2, 3, 5}}

(* A nil *UnsignedImportTx / *UnsignedExportTx *)
NilImportTx == [kind |-> "nilImport"]
NilExportTx == [kind |-> "nilExport"]
IsNilTx(tx) == tx.kind \in {"nilImport", "nilExport"}

---------------------------------------------------------------------------
(* Element checks and canonical orders *)

(* EVMOutput.Verify *)
EVMOutputVerify(out) ==
    IF out.Amount = 0 THEN "errNoValueOutput" ELSE Nil

(* EVMInput.Verify *)
EVMInputVerify(in) ==
    IF in.Amount = 0 THEN "errNoValueInput" ELSE Nil

(* utils.IsSortedAndUniqueUint32 *)
IsSortedAndUniqueUint32(arr) ==
    \A i \in 1..(Len(arr) - 1) : arr[i] < arr[i + 1]

(* axc.TransferableInput.Verify: the amount of the input is not zero and    *)
(* its signature indices are sorted and unique                              *)
TransferableInputVerify(in) ==
    IF in.Amt = 0 THEN "errNoValueInput"
    ELSE IF ~IsSortedAndUniqueUint32(in.SigIndices) THEN "errNotSortedUnique"
    ELSE Nil

(* axc.TransferableOutput.Verify *)
TransferableOutputVerify(out) ==
    IF out.Amt = 0 THEN "errNoValueOutput" ELSE Nil

(* The first error of a sequence of results, Nil if every one is Nil: the   *)
(* value a loop "for ... { if err != nil { return err } }" returns         *)
FirstError(errs) ==
    IF \E i \in 1..Len(errs) : errs[i] # Nil
    THEN errs[CHOOSE i \in 1..Len(errs) :
                /\ errs[i] # Nil
                /\ \A j \in 1..(i - 1) : errs[j] = Nil]
    ELSE Nil

(* Order of UTXO ids: by TxID, then by OutputIndex *)
UTXOIDLess(a, b) ==
    \/ a.TxID < b.TxID
    \/ a.TxID = b.TxID /\ a.OutputIndex < b.OutputIndex

(* axc.IsSortedAndUniqueTransferableInputs *)
IsSortedAndUniqueTransferableInputs(ins) ==
    \A i \in 1..(Len(ins) - 1) : UTXOIDLess(ins[i].UTXOID, ins[i + 1].UTXOID)

(* Order of EVMOutput and EVMInput: by address bytes, then asset id bytes *)
EVMLess(a, b) ==
    \/ a.Address < b.Address
    \/ a.Address = b.Address /\ a.AssetID < b.AssetID

(* IsSortedEVMOutputs: sort.IsSorted, equal neighbours allowed *)
IsSortedEVMOutputs(outs) ==
    \A i \in 1..(Len(outs) - 1) : ~EVMLess(outs[i + 1], outs[i])

(* IsSortedAndUniqueEVMOutputs: utils.IsSortedAndUnique *)
IsSortedAndUniqueEVMOutputs(outs) ==
    \A i \in 1..(Len(outs) - 1) : EVMLess(outs[i], outs[i + 1])

(* IsSortedAndUniqueEVMInputs *)
IsSortedAndUniqueEVMInputs(ins) ==
    \A i \in 1..(Len(ins) - 1) : EVMLess(ins[i], ins[i + 1])

(* Order of transferable outputs: by asset id, then by the encoded output  *)
(* (amount first, then the owner address)                                  *)
TransferableOutputLess(a, b) ==
    \/ a.AssetID < b.AssetID
    \/ a.AssetID = b.AssetID /\ a.Amt < b.Amt
    \/ a.AssetID = b.AssetID /\ a.Amt = b.Amt /\ a.Addr < b.Addr

(* axc.IsSortedTransferableOutputs: sort.IsSorted *)
IsSortedTransferableOutputs(outs) ==
    \A i \in 1..(Len(outs) - 1) : ~TransferableOutputLess(outs[i + 1], outs[i])

---------------------------------------------------------------------------
(* UnsignedImportTx.Verify *)

ImportOutsError(tx) ==
    LET e == FirstError([i \in 1..Len(tx.Outs) |-> EVMOutputVerify(tx.Outs[i])])
    IN  IF e = Nil THEN Nil ELSE "EVM Output failed verification: " \o e

ImportInsError(tx) ==
    LET e == FirstError([i \in 1..Len(tx.ImportedInputs) |->
                            TransferableInputVerify(tx.ImportedInputs[i])])
    IN  IF e = Nil THEN Nil ELSE "atomic input failed verification: " \o e

(* Mutant: the subnet rule applies in every phase *)
ImportPeerChainError_AlwaysSubnet(tx, c, r) ==
    IF SameSubnet(c, tx.SourceChain) # Nil THEN "errWrongChainID" ELSE Nil

(* Mutant: the swap chain is the only source in every phase *)
ImportPeerChainError_SwapOnly(tx, c, r) ==
    IF tx.SourceChain # c.SwapChainID THEN "errWrongChainID" ELSE Nil

ImportPeerChainError(tx, c, r) ==
    IF r.IsApricotPhase5
    THEN IF SameSubnet(c, tx.SourceChain) # Nil THEN "errWrongChainID" ELSE Nil
    ELSE IF tx.SourceChain # c.SwapChainID THEN "errWrongChainID" ELSE Nil

(* Mutant: phase 2 checks only that the outputs are sorted *)
ImportOutsOrderError_SortedOnly(tx, r) ==
    IF r.IsApricotPhase2
    THEN IF ~IsSortedEVMOutputs(tx.Outs)
         THEN "errOutputsNotSortedUnique" ELSE Nil
    ELSE IF r.IsApricotPhase1
    THEN IF ~IsSortedEVMOutputs(tx.Outs) THEN "errOutputsNotSorted" ELSE Nil
    ELSE Nil

ImportOutsOrderError(tx, r) ==
    IF r.IsApricotPhase2
    THEN IF ~IsSortedAndUniqueEVMOutputs(tx.Outs)
         THEN "errOutputsNotSortedUnique" ELSE Nil
    ELSE IF r.IsApricotPhase1
    THEN IF ~IsSortedEVMOutputs(tx.Outs) THEN "errOutputsNotSorted" ELSE Nil
    ELSE Nil

(* Mutant: the blockchain id is compared before the network id *)
ImportVerify_ChainFirst(tx, c, r) ==
    IF IsNilTx(tx) THEN "errNilTx"
    ELSE IF Len(tx.ImportedInputs) = 0 THEN "errNoImportInputs"
    ELSE IF c.ChainID # tx.BlockchainID THEN "errWrongBlockchainID"
    ELSE IF tx.NetworkID # c.NetworkID THEN "errWrongNetworkID"
    ELSE IF r.IsApricotPhase3 /\ Len(tx.Outs) = 0 THEN "errNoEVMOutputs"
    ELSE IF ImportPeerChainError(tx, c, r) # Nil
         THEN ImportPeerChainError(tx, c, r)
    ELSE IF ImportOutsError(tx) # Nil THEN ImportOutsError(tx)
    ELSE IF ImportInsError(tx) # Nil THEN ImportInsError(tx)
    ELSE IF ~IsSortedAndUniqueTransferableInputs(tx.ImportedInputs)
         THEN "errInputsNotSortedUnique"
    ELSE ImportOutsOrderError(tx, r)

(* Mutant: an output is required from phase 2 *)
ImportVerify_OutsFromPhase2(tx, c, r) ==
    IF IsNilTx(tx) THEN "errNilTx"
    ELSE IF Len(tx.ImportedInputs) = 0 THEN "errNoImportInputs"
    ELSE IF tx.NetworkID # c.NetworkID THEN "errWrongNetworkID"
    ELSE IF c.ChainID # tx.BlockchainID THEN "errWrongBlockchainID"
    ELSE IF r.IsApricotPhase2 /\ Len(tx.Outs) = 0 THEN "errNoEVMOutputs"
    ELSE IF ImportPeerChainError(tx, c, r) # Nil
         THEN ImportPeerChainError(tx, c, r)
    ELSE IF ImportOutsError(tx) # Nil THEN ImportOutsError(tx)
    ELSE IF ImportInsError(tx) # Nil THEN ImportInsError(tx)
    ELSE IF ~IsSortedAndUniqueTransferableInputs(tx.ImportedInputs)
         THEN "errInputsNotSortedUnique"
    ELSE ImportOutsOrderError(tx, r)

(* Mutant: the order of the inputs is checked from phase 1 *)
ImportVerify_InsOrderFromPhase1(tx, c, r) ==
    IF IsNilTx(tx) THEN "errNilTx"
    ELSE IF Len(tx.ImportedInputs) = 0 THEN "errNoImportInputs"
    ELSE IF tx.NetworkID # c.NetworkID THEN "errWrongNetworkID"
    ELSE IF c.ChainID # tx.BlockchainID THEN "errWrongBlockchainID"
    ELSE IF r.IsApricotPhase3 /\ Len(tx.Outs) = 0 THEN "errNoEVMOutputs"
    ELSE IF ImportPeerChainError(tx, c, r) # Nil
         THEN ImportPeerChainError(tx, c, r)
    ELSE IF ImportOutsError(tx) # Nil THEN ImportOutsError(tx)
    ELSE IF ImportInsError(tx) # Nil THEN ImportInsError(tx)
    ELSE IF r.IsApricotPhase1
            /\ ~IsSortedAndUniqueTransferableInputs(tx.ImportedInputs)
         THEN "errInputsNotSortedUnique"
    ELSE ImportOutsOrderError(tx, r)

ImportVerify(tx, c, r) ==
    IF IsNilTx(tx) THEN "errNilTx"
    ELSE IF Len(tx.ImportedInputs) = 0 THEN "errNoImportInputs"
    ELSE IF tx.NetworkID # c.NetworkID THEN "errWrongNetworkID"
    ELSE IF c.ChainID # tx.BlockchainID THEN "errWrongBlockchainID"
    ELSE IF r.IsApricotPhase3 /\ Len(tx.Outs) = 0 THEN "errNoEVMOutputs"
    ELSE IF ImportPeerChainError(tx, c, r) # Nil
         THEN ImportPeerChainError(tx, c, r)
    ELSE IF ImportOutsError(tx) # Nil THEN ImportOutsError(tx)
    ELSE IF ImportInsError(tx) # Nil THEN ImportInsError(tx)
    ELSE IF ~IsSortedAndUniqueTransferableInputs(tx.ImportedInputs)
         THEN "errInputsNotSortedUnique"
    ELSE ImportOutsOrderError(tx, r)

---------------------------------------------------------------------------
(* UnsignedExportTx.Verify *)

(* Mutant: the swap chain is the only destination in every phase *)
ExportPeerChainError_SwapOnly(tx, c, r) ==
    IF tx.DestinationChain # c.SwapChainID THEN "errWrongChainID" ELSE Nil

ExportPeerChainError(tx, c, r) ==
    IF r.IsApricotPhase5
    THEN IF SameSubnet(c, tx.DestinationChain) # Nil
         THEN "errWrongChainID" ELSE Nil
    ELSE IF tx.DestinationChain # c.SwapChainID THEN "errWrongChainID" ELSE Nil

ExportInsError(tx) ==
    FirstError([i \in 1..Len(tx.Ins) |-> EVMInputVerify(tx.Ins[i])])

(* Mutant: the asset of an output is not compared *)
ExportOutError_NoAssetCheck(tx, c, out) ==
    TransferableOutputVerify(out)

(* The body of the loop over the exported outputs, for one output *)
ExportOutError(tx, c, out) ==
    IF TransferableOutputVerify(out) # Nil THEN TransferableOutputVerify(out)
    ELSE IF out.AssetID # c.AXCAssetID /\ tx.DestinationChain = PlatformChainID
    THEN "errWrongChainID"
    ELSE Nil

(* Mutant: every output is verified before any asset is compared *)
ExportOutsError_TwoLoops(tx, c) ==
    LET e == FirstError([i \in 1..Len(tx.ExportedOutputs) |->
                            TransferableOutputVerify(tx.ExportedOutputs[i])])
    IN  IF e # Nil THEN e
        ELSE IF \E i \in 1..Len(tx.ExportedOutputs) :
                   /\ tx.ExportedOutputs[i].AssetID # c.AXCAssetID
                   /\ tx.DestinationChain = PlatformChainID
        THEN "errWrongChainID"
        ELSE Nil

ExportOutsError(tx, c) ==
    FirstError([i \in 1..Len(tx.ExportedOutputs) |->
                   ExportOutError(tx, c, tx.ExportedOutputs[i])])

(* Mutant: the order of the inputs is checked in every phase *)
ExportVerify_InsOrderAlways(tx, c, r) ==
    IF IsNilTx(tx) THEN "errNilTx"
    ELSE IF Len(tx.ExportedOutputs) = 0 THEN "errNoExportOutputs"
    ELSE IF tx.NetworkID # c.NetworkID THEN "errWrongNetworkID"
    ELSE IF c.ChainID # tx.BlockchainID THEN "errWrongBlockchainID"
    ELSE IF ExportPeerChainError(tx, c, r) # Nil
         THEN ExportPeerChainError(tx, c, r)
    ELSE IF ExportInsError(tx) # Nil THEN ExportInsError(tx)
    ELSE IF ExportOutsError(tx, c) # Nil THEN ExportOutsError(tx, c)
    ELSE IF ~IsSortedTransferableOutputs(tx.ExportedOutputs)
         THEN "errOutputsNotSorted"
    ELSE IF ~IsSortedAndUniqueEVMInputs(tx.Ins)
         THEN "errInputsNotSortedUnique"
    ELSE Nil

ExportVerify(tx, c, r) ==
    IF IsNilTx(tx) THEN "errNilTx"
    ELSE IF Len(tx.ExportedOutputs) = 0 THEN "errNoExportOutputs"
    ELSE IF tx.NetworkID # c.NetworkID THEN "errWrongNetworkID"
    ELSE IF c.ChainID # tx.BlockchainID THEN "errWrongBlockchainID"
    ELSE IF ExportPeerChainError(tx, c, r) # Nil
         THEN ExportPeerChainError(tx, c, r)
    ELSE IF ExportInsError(tx) # Nil THEN ExportInsError(tx)
    ELSE IF ExportOutsError(tx, c) # Nil THEN ExportOutsError(tx, c)
    ELSE IF ~IsSortedTransferableOutputs(tx.ExportedOutputs)
         THEN "errOutputsNotSorted"
    ELSE IF r.IsApricotPhase1 /\ ~IsSortedAndUniqueEVMInputs(tx.Ins)
         THEN "errInputsNotSortedUnique"
    ELSE Nil

---------------------------------------------------------------------------
(* math/big: a balance of the ledger is an unbounded integer, kept as two  *)
(* digits in base x2cRate: the value of [hi, lo] is hi * x2cRate + lo      *)

x2cRate == 1000000000

(* new(big.Int).Mul(new(big.Int).SetUint64(amount), x2cRate) *)
MulX2C(amount) == [hi |-> amount, lo |-> 0]

(* big.Int.Cmp(a, b) < 0 *)
BigLess(a, b) == a.hi < b.hi \/ (a.hi = b.hi /\ a.lo < b.lo)

(* big.Int.Add *)
BigAdd(a, b) ==
    [hi |-> a.hi + b.hi + ((a.lo + b.lo) \div x2cRate),
     lo |-> (a.lo + b.lo) % x2cRate]

(* big.Int.Sub, for a >= b *)
BigSub(a, b) ==
    IF a.lo >= b.lo
    THEN [hi |-> a.hi - b.hi, lo |-> a.lo - b.lo]
    ELSE [hi |-> a.hi - b.hi - 1, lo |-> a.lo + x2cRate - b.lo]

---------------------------------------------------------------------------
(* state.StateDB: the ledger *)

GetBalance(st, addr) == st.balance[addr]
AddBalance(st, addr, amount) ==
    [st EXCEPT !.balance[addr] = BigAdd(@, amount)]
SubBalance(st, addr, amount) ==
    [st EXCEPT !.balance[addr] = BigSub(@, amount)]
GetBalanceMultiCoin(st, addr, coinID) == st.multicoin[addr][coinID]
AddBalanceMultiCoin(st, addr, coinID, amount) ==
    [st EXCEPT !.multicoin[addr][coinID] = @ + amount]
SubBalanceMultiCoin(st, addr, coinID, amount) ==
    [st EXCEPT !.multicoin[addr][coinID] = @ - amount]
GetNonce(st, addr) == st.nonce[addr]
SetNonce(st, addr, n) == [st EXCEPT !.nonce[addr] = n]

---------------------------------------------------------------------------
(* UnsignedImportTx.EVMStateTransfer *)

(* Mutant: the native amount is credited without the x2c conversion *)
ImportCredit_NoRate(st, c, to) ==
    IF to.AssetID = c.AXCAssetID
    THEN AddBalance(st, to.Address, [hi |-> 0, lo |-> to.Amount])
    ELSE AddBalanceMultiCoin(st, to.Address, to.AssetID, to.Amount)

(* The body of the loop, for one output *)
ImportCredit(st, c, to) ==
    IF to.AssetID = c.AXCAssetID
    THEN AddBalance(st, to.Address, MulX2C(to.Amount))
    ELSE AddBalanceMultiCoin(st, to.Address, to.AssetID, to.Amount)

RECURSIVE ImportTransferLoop(_, _, _, _)
ImportTransferLoop(outs, i, c, st) ==
    IF i > Len(outs) THEN st
    ELSE ImportTransferLoop(outs, i + 1, c, ImportCredit(st, c, outs[i]))

ImportEVMStateTransfer(tx, c, st) ==
    [err |-> Nil, state |-> ImportTransferLoop(tx.Outs, 1, c, st)]

---------------------------------------------------------------------------
(* UnsignedExportTx.EVMStateTransfer *)

(* The first half of the loop body: the balance check and the debit of one *)
(* input; the ledger is returned as the debit left it                      *)
ExportDebit(st, c, from) ==
    IF from.AssetID = c.AXCAssetID
    THEN IF BigLess(GetBalance(st, from.Address), MulX2C(from.Amount))
         THEN [err |-> "errInsufficientFunds", state |-> st]
         ELSE [err |-> Nil,
               state |-> SubBalance(st, from.Address, MulX2C(from.Amount))]
    ELSE IF GetBalanceMultiCoin(st, from.Address, from.AssetID) < from.Amount
         THEN [err |-> "errInsufficientFunds", state |-> st]
         ELSE [err |-> Nil,
               state |-> SubBalanceMultiCoin(st, from.Address, from.AssetID,
                                             from.Amount)]

(* The second loop: state.SetNonce(addr, nonce + 1) for every entry of the *)
(* map addrs (a function from the addresses touched to the nonce claimed)  *)
SetNonces(st, addrs) ==
    [st EXCEPT !.nonce = [a \in DOMAIN st.nonce |->
                            IF a \in DOMAIN addrs THEN addrs[a] + 1
                            ELSE st.nonce[a]]]

(* addrs[from.Address] = from.Nonce *)
MapPut(addrs, k, v) ==
    [a \in DOMAIN addrs \cup {k} |-> IF a = k THEN v ELSE addrs[a]]

(* Mutant: the nonce of the account is not compared with the input's *)
RECURSIVE ExportTransferLoop_NoNonceCheck(_, _, _, _, _)
ExportTransferLoop_NoNonceCheck(ins, i, c, st, addrs) ==
    IF i > Len(ins) THEN [err |-> Nil, state |-> SetNonces(st, addrs)]
    ELSE LET from == ins[i]
             debit == ExportDebit(st, c, from)
         IN  IF debit.err # Nil THEN debit
             ELSE ExportTransferLoop_NoNonceCheck(ins, i + 1, c, debit.state,
                                     MapPut(addrs, from.Address, from.Nonce))

RECURSIVE ExportTransferLoop(_, _, _, _, _)
ExportTransferLoop(ins, i, c, st, addrs) ==
    IF i > Len(ins) THEN [err |-> Nil, state |-> SetNonces(st, addrs)]
    ELSE LET from == ins[i]
             debit == ExportDebit(st, c, from)
         IN  IF debit.err # Nil THEN debit
             ELSE IF GetNonce(debit.state, from.Address) # from.Nonce
             THEN [err |-> "errInvalidNonce", state |-> debit.state]
             ELSE ExportTransferLoop(ins, i + 1, c, debit.state,
                                     MapPut(addrs, from.Address, from.Nonce))

ExportEVMStateTransfer(tx, c, st) ==
    ExportTransferLoop(tx.Ins, 1, c, st, <<>>)

---------------------------------------------------------------------------
(* Gas and fees *)

TxBytesGas == 1
CostPerSignature == 1000
AtomicTxBaseCost == 10000
AxiaAtomicTxFee == 1000000

calcBytesCost(len) == len * TxBytesGas

(* len(tx.UnsignedBytes()): the codec writes 82 bytes of header and list    *)
(* lengths, 84 bytes for an imported input and 4 more for each of its       *)
(* signature indices, 60 bytes for an EVM output, 68 for an EVM input and   *)
(* 80 for an exported output with one address                              *)
RECURSIVE ImportedInputsBytesLen(_)
ImportedInputsBytesLen(ins) ==
    IF ins = <<>> THEN 0
    ELSE 84 + 4 * Len(Head(ins).SigIndices) + ImportedInputsBytesLen(Tail(ins))
ImportUnsignedBytesLen(tx) ==
    82 + ImportedInputsBytesLen(tx.ImportedInputs) + 60 * Len(tx.Outs)
ExportUnsignedBytesLen(tx) ==
    82 + 68 * Len(tx.Ins) + 80 * Len(tx.ExportedOutputs)

(* secp256k1fx.Input.Cost: CostPerSignature for every signature index of   *)
(* the input                                                               *)
TransferInputCost(in) == Len(in.SigIndices) * CostPerSignature

RECURSIVE ImportInputsCost(_)
ImportInputsCost(ins) ==
    IF ins = <<>> THEN 0
    ELSE TransferInputCost(Head(ins)) + ImportInputsCost(Tail(ins))

ImportGasUsed(tx, fixedFee) ==
    calcBytesCost(ImportUnsignedBytesLen(tx))
    + ImportInputsCost(tx.ImportedInputs)
    + (IF fixedFee THEN AtomicTxBaseCost ELSE 0)

ExportGasUsed(tx, fixedFee) ==
    calcBytesCost(ExportUnsignedBytesLen(tx))
    + Len(tx.Ins) * CostPerSignature
    + (IF fixedFee THEN AtomicTxBaseCost ELSE 0)

(* A base fee is held as two limbs, hi * x2cRate + lo; isNil marks the nil  *)
(* pointer.                                                                *)
NilBaseFee == [isNil |-> TRUE, hi |-> 0, lo |-> 0]

(* calculateDynamicFee: cost * baseFee in wei, divided by x2cRate rounding  *)
(* up.                                                                      *)
calculateDynamicFee(cost, bf) ==
    IF bf = NilBaseFee THEN [err |-> "errNilBaseFee", fee |-> 0]
    ELSE [err |-> Nil,
          fee |-> cost * bf.hi + (cost * bf.lo + x2cRate - 1) \div x2cRate]

---------------------------------------------------------------------------
(* Burned: the amount of an asset the inputs hold beyond the outputs *)

(* The sum of the amounts of the <<asset, amount>> pairs of one asset, as   *)
(* the loops of Burned add them                                             *)
RECURSIVE AddAmounts(_, _, _)
AddAmounts(items, assetID, acc) ==
    IF items = <<>> THEN acc
    ELSE AddAmounts(Tail(items), assetID,
                    IF Head(items)[1] = assetID THEN acc + Head(items)[2]
                    ELSE acc)

(* math.Sub64 *)
Sub64(a, b) ==
    IF a < b THEN [err |-> "errUnderflow", val |-> 0]
    ELSE [err |-> Nil, val |-> a - b]

ImportBurned(tx, assetID) ==
    LET spent == AddAmounts([i \in 1..Len(tx.Outs) |->
                               <<tx.Outs[i].AssetID, tx.Outs[i].Amount>>],
                            assetID, 0)
        input == AddAmounts([i \in 1..Len(tx.ImportedInputs) |->
                               <<tx.ImportedInputs[i].AssetID,
                                 tx.ImportedInputs[i].Amt>>],
                            assetID, 0)
    IN  Sub64(input, spent)

---------------------------------------------------------------------------
(* axc.FlowChecker *)

NewFlowChecker ==
    [consumed |-> [id \in AssetIDs |-> 0], produced |-> [id \in AssetIDs |-> 0]]
Produce(fc, assetID, amount) ==
    [fc EXCEPT !.produced[assetID] = @ + amount]
Consume(fc, assetID, amount) ==
    [fc EXCEPT !.consumed[assetID] = @ + amount]
FlowCheckerVerify(fc) ==
    IF \E id \in AssetIDs : fc.produced[id] > fc.consumed[id]
    THEN "errInsufficientFunds" ELSE Nil

(* Mutant: only the native asset's books are checked *)
FlowCheckerVerify_NativeOnly(fc) ==
    IF fc.produced[ctx.AXCAssetID] > fc.consumed[ctx.AXCAssetID]
    THEN "errInsufficientFunds" ELSE Nil

(* The loops over outputs and inputs; items are <<assetID, amount>> *)
RECURSIVE ProduceEach(_, _)
ProduceEach(fc, items) ==
    IF items = <<>> THEN fc
    ELSE ProduceEach(Produce(fc, Head(items)[1], Head(items)[2]), Tail(items))
RECURSIVE ConsumeEach(_, _)
ConsumeEach(fc, items) ==
    IF items = <<>> THEN fc
    ELSE ConsumeEach(Consume(fc, Head(items)[1], Head(items)[2]), Tail(items))

---------------------------------------------------------------------------
(* Shared memory, credentials, blocks *)

(* An entry of shared memory: the bytes stored by chain Chain under the     *)
(* key UTXOID.  Value is a UTXO [AssetID, Amt, Owner], or Garbage for bytes *)
(* that do not unmarshal as a UTXO (isUTXO tells them apart).               *)
Garbage == [isUTXO |-> FALSE, AssetID |-> 0, Amt |-> 0, Owner |-> 0]

(* SharedMemory.Get(chain, keys): every value, or an error if a key is      *)
(* absent                                                                   *)
SharedMemoryGet(mem, chain, keys) ==
    IF \A i \in 1..Len(keys) :
          \E e \in mem : e.Chain = chain /\ e.UTXOID = keys[i]
    THEN [err |-> Nil,
          values |-> [i \in 1..Len(keys) |->
                        (CHOOSE e \in mem :
                            e.Chain = chain /\ e.UTXOID = keys[i]).Value]]
    ELSE [err |-> "errNotFound", values |-> <<>>]

(* Credentials.  A *secp256k1fx.Credential holds signatures; a signature is *)
(* modelled by the address its recovered public key maps to, MalformedSig  *)
(* being a signature from which no public key is recovered.  A credential  *)
(* can also be the nil *secp256k1fx.Credential or a value of another type. *)
MalformedSig == 0
Credential(sigs) == [Type |-> "*secp256k1fx.Credential", Sigs |-> sigs]
NilCredential == [Type |-> "nil *secp256k1fx.Credential", Sigs |-> <<>>]
OtherCredential == [Type |-> "other", Sigs |-> <<>>]

(* Tx.Sign: one credential for every list of keys, holding the signature   *)
(* of every key of the list                                                *)
Sign(signers) == [i \in 1..Len(signers) |-> Credential(signers[i])]

(* fx.VerifyTransfer(tx, in, cred, out): the input spends the amount of the *)
(* output, names as many signature indices as the threshold of the output   *)
(* (1: an output has one owner), the credential holds as many signatures,   *)
(* and the signature is that of the owner the index names                   *)
VerifyTransfer(in, cred, out) ==
    IF cred.Type = "other" THEN "errWrongCredentialType"
    ELSE IF cred = NilCredential THEN "errNilCredential"
    ELSE IF in.Amt # out.Amt THEN "errMismatchedAmounts"
    ELSE IF Len(in.SigIndices) > 1 THEN "errTooManySigners"
    ELSE IF Len(in.SigIndices) < 1 THEN "errTooFewSigners"
    ELSE IF Len(cred.Sigs) # Len(in.SigIndices)
    THEN "errInputCredentialSignersMismatch"
    ELSE IF in.SigIndices[1] # 0 THEN "errInputOutputIndexOutOfBounds"
    ELSE IF cred.Sigs[1] = MalformedSig THEN "RecoverPublicKey failed"
    ELSE IF cred.Sigs[1] # out.Owner THEN "errWrongSigner"
    ELSE Nil

(* InputUTXOs *)
ImportInputUTXOs(tx) ==
    {<<"utxo", tx.ImportedInputs[i].UTXOID>> : i \in 1..Len(tx.ImportedInputs)}

(* binary.BigEndian: the n bytes of val, most significant first.  val is    *)
(* below 2^31 here, so the bytes above the low four are zero.               *)
BigEndian(val, n) ==
    [i \in 1..n |-> IF n - i >= 4 THEN 0 ELSE (val \div 256^(n - i)) % 256]

(* common.Address.Bytes: the 20 bytes of the address.  The model names an   *)
(* address by a number; its bytes are that number's, most significant first *)
AddressBytes(a) == BigEndian(a, 20)

(* wrappers.Packer over a buffer that is not allowed to grow (MaxSize is    *)
(* unset): a write that does not fit records an error and writes nothing,   *)
(* and nothing is written once an error is recorded.                        *)
Packer(bytes) == [Bytes |-> bytes, Offset |-> 0, Errored |-> FALSE]
PackFixedBytes(p, bytes) ==
    IF p.Errored \/ p.Offset + Len(bytes) > Len(p.Bytes)
    THEN [p EXCEPT !.Errored = TRUE]
    ELSE [p EXCEPT !.Bytes = [i \in 1..Len(p.Bytes) |->
                                IF i > p.Offset /\ i <= p.Offset + Len(bytes)
                                THEN bytes[i - p.Offset]
                                ELSE p.Bytes[i]],
                   !.Offset = p.Offset + Len(bytes)]
PackLong(p, val) == PackFixedBytes(p, BigEndian(val, 8))
PackInt(p, val) == PackFixedBytes(p, BigEndian(val, 4))
(* PackBytes writes the length of the bytes as a uint32, then the bytes     *)
PackBytes(p, bytes) == PackFixedBytes(PackInt(p, Len(bytes)), bytes)

(* InputUTXOs of an Export that packs the nonce and leaves the address out  *)
ExportInputUTXOs_NonceOnly(tx) ==
    {<<"nonce", PackLong(Packer([b \in 1..32 |-> 0]), tx.Ins[i].Nonce).Bytes>> :
        i \in 1..Len(tx.Ins)}

(* UnsignedExportTx.InputUTXOs: for every input a 32-byte id holding the    *)
(* nonce (8 bytes) followed by the address as PackBytes writes it           *)
ExportInputUTXOs(tx) ==
    {<<"nonce", PackBytes(PackLong(Packer([b \in 1..32 |-> 0]),
                                   tx.Ins[i].Nonce),
                          AddressBytes(tx.Ins[i].Address)).Bytes>> :
        i \in 1..Len(tx.Ins)}
InputUTXOs(tx) ==
    IF tx.kind = "import" THEN ImportInputUTXOs(tx) ELSE ExportInputUTXOs(tx)

(* Blocks are numbered from 1 in the order they were verified; 0 is the     *)
(* last accepted block at start.                                           *)
Genesis == 0
BlockStatus(blks, b) ==
    IF b = Genesis THEN "Accepted"
    ELSE IF b \in DOMAIN blks THEN blks[b].Status ELSE "Unknown"

(* vm.conflicts(inputs, ancestor) *)
RECURSIVE conflicts(_, _, _)
conflicts(inputs, ancestor, blks) ==
    IF BlockStatus(blks, ancestor) = "Accepted" THEN Nil
    ELSE IF ancestor \notin DOMAIN blks THEN "errRejectedParent"
    ELSE IF \E i \in 1..Len(blks[ancestor].atomicTxs) :
               inputs \cap InputUTXOs(blks[ancestor].atomicTxs[i]) # {}
    THEN "errConflictingAtomicInputs"
    ELSE IF BlockStatus(blks, blks[ancestor].Parent) \in {"Unknown", "Rejected"}
    THEN "errRejectedParent"
    ELSE conflicts(inputs, blks[ancestor].Parent, blks)

---------------------------------------------------------------------------
(* UnsignedImportTx.SemanticVerify *)

(* Mutant: the fixed base cost is part of the gas from phase 3 *)
ImportTxFee_BaseCostFromPhase3(tx, r, bf) ==
    IF r.IsApricotPhase3
    THEN calculateDynamicFee(ImportGasUsed(tx, r.IsApricotPhase3), bf)
    ELSE IF r.IsApricotPhase2 THEN [err |-> Nil, fee |-> AxiaAtomicTxFee]
    ELSE [err |-> Nil, fee |-> 0]

(* The fee the switch on the rules produces for the native asset *)
ImportTxFee(tx, r, bf) ==
    IF r.IsApricotPhase3
    THEN calculateDynamicFee(ImportGasUsed(tx, r.IsApricotPhase5), bf)
    ELSE IF r.IsApricotPhase2 THEN [err |-> Nil, fee |-> AxiaAtomicTxFee]
    ELSE [err |-> Nil, fee |-> 0]

ImportProduced(tx) == [i \in 1..Len(tx.Outs) |->
                          <<tx.Outs[i].AssetID, tx.Outs[i].Amount>>]
ImportConsumed(tx) == [i \in 1..Len(tx.ImportedInputs) |->
                          <<tx.ImportedInputs[i].AssetID,
                            tx.ImportedInputs[i].Amt>>]

(* Mutant: the fee is not produced *)
ImportFlowCheck_NoFee(tx, c, fee) ==
    LET fc == ConsumeEach(ProduceEach(NewFlowChecker, ImportProduced(tx)),
                          ImportConsumed(tx))
    IN  IF FlowCheckerVerify(fc) # Nil
        THEN "import tx flow check failed due to: errInsufficientFunds"
        ELSE Nil

(* The flow check, given the fee *)
ImportFlowCheck(tx, c, fee) ==
    LET fc == ConsumeEach(ProduceEach(Produce(NewFlowChecker, c.AXCAssetID, fee),
                                      ImportProduced(tx)),
                          ImportConsumed(tx))
    IN  IF FlowCheckerVerify(fc) # Nil
        THEN "import tx flow check failed due to: errInsufficientFunds"
        ELSE Nil

(* Mutant: the asset of the fetched UTXO is not compared *)
RECURSIVE ImportSpendLoop_NoAssetCheck(_, _, _, _)
ImportSpendLoop_NoAssetCheck(tx, cr, values, i) ==
    IF i > Len(tx.ImportedInputs) THEN Nil
    ELSE IF ~values[i].isUTXO THEN "failed to unmarshal UTXO"
    ELSE IF VerifyTransfer(tx.ImportedInputs[i], cr[i], values[i]) # Nil
    THEN "import tx transfer failed verification"
    ELSE ImportSpendLoop_NoAssetCheck(tx, cr, values, i + 1)

(* The loop over the fetched UTXOs, from input i *)
RECURSIVE ImportSpendLoop(_, _, _, _)
ImportSpendLoop(tx, cr, values, i) ==
    IF i > Len(tx.ImportedInputs) THEN Nil
    ELSE IF ~values[i].isUTXO THEN "failed to unmarshal UTXO"
    ELSE IF values[i].AssetID # tx.ImportedInputs[i].AssetID
    THEN "errAssetIDMismatch"
    ELSE IF VerifyTransfer(tx.ImportedInputs[i], cr[i], values[i]) # Nil
    THEN "import tx transfer failed verification"
    ELSE ImportSpendLoop(tx, cr, values, i + 1)

(* Mutant: the conflict check is left out *)
ImportStateChecks_NoConflicts(tx, cr, mem, blks, par) ==
    LET utxoIDs == [i \in 1..Len(tx.ImportedInputs) |->
                       tx.ImportedInputs[i].UTXOID]
        got == SharedMemoryGet(mem, tx.SourceChain, utxoIDs)
    IN  IF got.err # Nil
        THEN "failed to fetch import UTXOs from " \o tx.SourceChain
             \o " due to: " \o got.err
        ELSE ImportSpendLoop(tx, cr, got.values, 1)

(* The part of SemanticVerify that runs only when the VM is bootstrapped *)
ImportStateChecks(tx, cr, mem, blks, par) ==
    LET utxoIDs == [i \in 1..Len(tx.ImportedInputs) |->
                       tx.ImportedInputs[i].UTXOID]
        got == SharedMemoryGet(mem, tx.SourceChain, utxoIDs)
    IN  IF got.err # Nil
        THEN "failed to fetch import UTXOs from " \o tx.SourceChain
             \o " due to: " \o got.err
        ELSE IF ImportSpendLoop(tx, cr, got.values, 1) # Nil
        THEN ImportSpendLoop(tx, cr, got.values, 1)
        ELSE conflicts(ImportInputUTXOs(tx), par, blks)

(* Mutant: the credentials are counted after the return of a VM that is    *)
(* not bootstrapped                                                        *)
ImportSemanticVerify_CountAfterBootstrapping(tx, cr, c, vm, par, bf, r) ==
    IF ImportVerify(tx, c, r) # Nil THEN ImportVerify(tx, c, r)
    ELSE IF ImportTxFee(tx, r, bf).err # Nil THEN ImportTxFee(tx, r, bf).err
    ELSE IF ImportFlowCheck(tx, c, ImportTxFee(tx, r, bf).fee) # Nil
    THEN ImportFlowCheck(tx, c, ImportTxFee(tx, r, bf).fee)
    ELSE IF ~vm.bootstrapped THEN Nil
    ELSE IF Len(cr) # Len(tx.ImportedInputs)
    THEN "import tx contained mismatched number of inputs/credentials"
    ELSE ImportStateChecks(tx, cr, vm.sharedMemory, vm.blocks, par)

(* Mutant: the state is checked by a VM that is not bootstrapped too *)
ImportSemanticVerify_NoForceCommit(tx, cr, c, vm, par, bf, r) ==
    IF ImportVerify(tx, c, r) # Nil THEN ImportVerify(tx, c, r)
    ELSE IF ImportTxFee(tx, r, bf).err # Nil THEN ImportTxFee(tx, r, bf).err
    ELSE IF ImportFlowCheck(tx, c, ImportTxFee(tx, r, bf).fee) # Nil
    THEN ImportFlowCheck(tx, c, ImportTxFee(tx, r, bf).fee)
    ELSE IF Len(cr) # Len(tx.ImportedInputs)
    THEN "import tx contained mismatched number of inputs/credentials"
    ELSE ImportStateChecks(tx, cr, vm.sharedMemory, vm.blocks, par)

(* Mutant: the fee and the flow are checked before the structure *)
ImportSemanticVerify_FlowFirst(tx, cr, c, vm, par, bf, r) ==
    IF IsNilTx(tx) THEN ImportVerify(tx, c, r)
    ELSE IF ImportTxFee(tx, r, bf).err # Nil THEN ImportTxFee(tx, r, bf).err
    ELSE IF ImportFlowCheck(tx, c, ImportTxFee(tx, r, bf).fee) # Nil
    THEN ImportFlowCheck(tx, c, ImportTxFee(tx, r, bf).fee)
    ELSE IF ImportVerify(tx, c, r) # Nil THEN ImportVerify(tx, c, r)
    ELSE IF Len(cr) # Len(tx.ImportedInputs)
    THEN "import tx contained mismatched number of inputs/credentials"
    ELSE IF ~vm.bootstrapped THEN Nil
    ELSE ImportStateChecks(tx, cr, vm.sharedMemory, vm.blocks, par)

(* vm is the record [bootstrapped, sharedMemory, blocks] of the VM's state  *)
ImportSemanticVerify(tx, cr, c, vm, par, bf, r) ==
    IF ImportVerify(tx, c, r) # Nil THEN ImportVerify(tx, c, r)
    ELSE IF ImportTxFee(tx, r, bf).err # Nil THEN ImportTxFee(tx, r, bf).err
    ELSE IF ImportFlowCheck(tx, c, ImportTxFee(tx, r, bf).fee) # Nil
    THEN ImportFlowCheck(tx, c, ImportTxFee(tx, r, bf).fee)
    ELSE IF Len(cr) # Len(tx.ImportedInputs)
    THEN "import tx contained mismatched number of inputs/credentials"
    ELSE IF ~vm.bootstrapped THEN Nil
    ELSE ImportStateChecks(tx, cr, vm.sharedMemory, vm.blocks, par)

---------------------------------------------------------------------------
(* UnsignedExportTx.SemanticVerify *)

(* Mutant: the switch of the Import, without a fee before phase 2 *)
ExportTxFee_NoneBeforePhase2(tx, r, bf) ==
    IF r.IsApricotPhase3
    THEN calculateDynamicFee(ExportGasUsed(tx, r.IsApricotPhase5), bf)
    ELSE IF r.IsApricotPhase2 THEN [err |-> Nil, fee |-> AxiaAtomicTxFee]
    ELSE [err |-> Nil, fee |-> 0]

ExportTxFee(tx, r, bf) ==
    IF r.IsApricotPhase3
    THEN calculateDynamicFee(ExportGasUsed(tx, r.IsApricotPhase5), bf)
    ELSE [err |-> Nil, fee |-> AxiaAtomicTxFee]

ExportProduced(tx) == [i \in 1..Len(tx.ExportedOutputs) |->
                          <<tx.ExportedOutputs[i].AssetID,
                            tx.ExportedOutputs[i].Amt>>]
ExportConsumed(tx) == [i \in 1..Len(tx.Ins) |->
                          <<tx.Ins[i].AssetID, tx.Ins[i].Amount>>]

(* Mutant: the flow is verified for the native asset only *)
ExportFlowCheck_NativeOnly(tx, c, fee) ==
    LET fc == ConsumeEach(ProduceEach(Produce(NewFlowChecker, c.AXCAssetID, fee),
                                      ExportProduced(tx)),
                          ExportConsumed(tx))
    IN  IF FlowCheckerVerify_NativeOnly(fc) # Nil
        THEN "export tx flow check failed due to: errInsufficientFunds"
        ELSE Nil

ExportFlowCheck(tx, c, fee) ==
    LET fc == ConsumeEach(ProduceEach(Produce(NewFlowChecker, c.AXCAssetID, fee),
                                      ExportProduced(tx)),
                          ExportConsumed(tx))
    IN  IF FlowCheckerVerify(fc) # Nil
        THEN "export tx flow check failed due to: errInsufficientFunds"
        ELSE Nil

(* The loop over the inputs and their credentials, from input i: the       *)
(* credential is a *secp256k1fx.Credential, it is not nil (Verify), it      *)
(* holds one signature, a public key is recovered from the signature, and   *)
(* the key maps to the address of the input.  The recovered key always has  *)
(* the type the loop expects.                                               *)
RECURSIVE ExportSignatureLoop(_, _, _)
ExportSignatureLoop(tx, cr, i) ==
    IF i > Len(tx.Ins) THEN Nil
    ELSE IF cr[i].Type = "other"
    THEN "expected *secp256k1fx.Credential"
    ELSE IF cr[i] = NilCredential THEN "errNilCredential"
    ELSE IF Len(cr[i].Sigs) # 1
    THEN "expected one signature for EVM Input Credential"
    ELSE IF cr[i].Sigs[1] = MalformedSig THEN "RecoverPublicKey failed"
    ELSE IF tx.Ins[i].Address # cr[i].Sigs[1]
    THEN "errPublicKeySignatureMismatch"
    ELSE ExportSignatureLoop(tx, cr, i + 1)

(* Mutant: the signatures are not checked by a VM that is not bootstrapped *)
ExportSemanticVerify_ForceCommit(tx, cr, c, vm, par, bf, r) ==
    IF ExportVerify(tx, c, r) # Nil THEN ExportVerify(tx, c, r)
    ELSE IF ExportTxFee(tx, r, bf).err # Nil THEN ExportTxFee(tx, r, bf).err
    ELSE IF ExportFlowCheck(tx, c, ExportTxFee(tx, r, bf).fee) # Nil
    THEN ExportFlowCheck(tx, c, ExportTxFee(tx, r, bf).fee)
    ELSE IF Len(tx.Ins) # Len(cr)
    THEN "export tx contained mismatched number of inputs/credentials"
    ELSE IF ~vm.bootstrapped THEN Nil
    ELSE ExportSignatureLoop(tx, cr, 1)

ExportSemanticVerify(tx, cr, c, vm, par, bf, r) ==
    IF ExportVerify(tx, c, r) # Nil THEN ExportVerify(tx, c, r)
    ELSE IF ExportTxFee(tx, r, bf).err # Nil THEN ExportTxFee(tx, r, bf).err
    ELSE IF ExportFlowCheck(tx, c, ExportTxFee(tx, r, bf).fee) # Nil
    THEN ExportFlowCheck(tx, c, ExportTxFee(tx, r, bf).fee)
    ELSE IF Len(tx.Ins) # Len(cr)
    THEN "export tx contained mismatched number of inputs/credentials"
    ELSE ExportSignatureLoop(tx, cr, 1)

---------------------------------------------------------------------------
(* Acceptance *)

(* Mutant: the request removes nothing *)
ImportAtomicOps_NoRemovals(tx) ==
    [chainID |-> tx.SourceChain, RemoveRequests |-> <<>>, PutRequests |-> <<>>]

(* UnsignedImportTx.AtomicOps: the source chain and one removal per input *)
ImportAtomicOps(tx) ==
    [chainID |-> tx.SourceChain,
     RemoveRequests |-> [i \in 1..Len(tx.ImportedInputs) |->
                            tx.ImportedInputs[i].UTXOID],
     PutRequests |-> <<>>]

(* Tx.ID: the hash of the bytes of the transaction, which tells any two    *)
(* transactions apart                                                      *)
TxIDOf(tx) == [hashOf |-> tx]

(* Mutant: every element is keyed by the first UTXO of the transaction *)
ExportAtomicOps_FirstKey(tx) ==
    [chainID |-> tx.DestinationChain,
     RemoveRequests |-> <<>>,
     PutRequests |->
        [i \in 1..Len(tx.ExportedOutputs) |->
            [Key |-> [TxID |-> TxIDOf(tx), OutputIndex |-> 0],
             Value |-> [isUTXO |-> TRUE,
                        AssetID |-> tx.ExportedOutputs[i].AssetID,
                        Amt |-> tx.ExportedOutputs[i].Amt,
                        Owner |-> tx.ExportedOutputs[i].Addr],
             Traits |-> <<tx.ExportedOutputs[i].Addr>>]]]

(* UnsignedExportTx.AtomicOps: the destination chain and one element per    *)
(* exported output: the UTXO (txID, i) made of the output, under its id,    *)
(* with the addresses of the output as traits.  Indices count from 0.       *)
ExportAtomicOps(tx) ==
    [chainID |-> tx.DestinationChain,
     RemoveRequests |-> <<>>,
     PutRequests |->
        [i \in 1..Len(tx.ExportedOutputs) |->
            [Key |-> [TxID |-> TxIDOf(tx), OutputIndex |-> i - 1],
             Value |-> [isUTXO |-> TRUE,
                        AssetID |-> tx.ExportedOutputs[i].AssetID,
                        Amt |-> tx.ExportedOutputs[i].Amt,
                        Owner |-> tx.ExportedOutputs[i].Addr],
             Traits |-> <<tx.ExportedOutputs[i].Addr>>]]]

(* SharedMemory.Apply of the removals of a request *)
SharedMemoryApply(mem, req) ==
    {e \in mem : ~(/\ e.Chain = req.chainID
                   /\ \E i \in 1..Len(req.RemoveRequests) :
                         req.RemoveRequests[i] = e.UTXOID)}

(* The last accepted block: accepted blocks form one chain, and a block is  *)
(* numbered after its parent                                               *)
LastAccepted(blks) ==
    IF \E b \in DOMAIN blks : blks[b].Status = "Accepted"
    THEN CHOOSE b \in DOMAIN blks :
            /\ blks[b].Status = "Accepted"
            /\ \A o \in DOMAIN blks : blks[o].Status = "Accepted" => o <= b
    ELSE Genesis

(* b is ancestor, or is a descendant of ancestor *)
RECURSIVE DescendsFrom(_, _, _)
DescendsFrom(blks, b, ancestor) ==
    IF b = ancestor THEN TRUE
    ELSE IF b = Genesis \/ b \notin DOMAIN blks THEN FALSE
    ELSE DescendsFrom(blks, blks[b].Parent, ancestor)

(* Consensus accepts block b: b is accepted and every processing block on   *)
(* another branch is rejected                                              *)
AcceptedChain(blks, b) ==
    [o \in DOMAIN blks |->
        IF o = b THEN [blks[o] EXCEPT !.Status = "Accepted"]
        ELSE IF blks[o].Status = "Processing" /\ ~DescendsFrom(blks, o, b)
        THEN [blks[o] EXCEPT !.Status = "Rejected"]
        ELSE blks[o]]

---------------------------------------------------------------------------
(* The factory: VM.newImportTx and VM.newImportTxWithUTXOs.  A UTXO is a   *)
(* record [UTXOID, AssetID, Amt, Owner]; a keychain is the set of the      *)
(* addresses whose keys it holds.                                          *)

(* The gas of one more EVM output: 60 bytes *)
EVMOutputGas == 60

(* The UTXOs of a set in the order of their ids *)
RECURSIVE UTXOsInOrder(_)
UTXOsInOrder(S) ==
    IF S = {} THEN <<>>
    ELSE LET m == CHOOSE x \in S :
                     \A y \in S \ {x} : UTXOIDLess(x.UTXOID, y.UTXOID)
         IN  <<m>> \o UTXOsInOrder(S \ {m})

(* vm.GetAtomicUTXOs(chainID, addrs, ...): the UTXOs the chain's shared     *)
(* memory holds for the addresses                                           *)
GetAtomicUTXOs(mem, chainID, addrs) ==
    UTXOsInOrder({[UTXOID |-> e.UTXOID, AssetID |-> e.Value.AssetID,
                   Amt |-> e.Value.Amt, Owner |-> e.Value.Owner] :
                    e \in {x \in mem : /\ x.Chain = chainID
                                       /\ x.Value.isUTXO
                                       /\ x.Value.Owner \in addrs}})

(* The loop over atomicUTXOs: the UTXOs the keychain can spend, each as an  *)
(* input with its signer                                                    *)
RECURSIVE SpendLoop(_, _)
SpendLoop(atomicUTXOs, keys) ==
    IF atomicUTXOs = <<>> THEN <<>>
    ELSE IF Head(atomicUTXOs).Owner \in keys
    THEN <<Head(atomicUTXOs)>> \o SpendLoop(Tail(atomicUTXOs), keys)
    ELSE SpendLoop(Tail(atomicUTXOs), keys)

(* axc.SortTransferableInputsWithSigners: by UTXO id, signers alongside *)
RECURSIVE InsertByUTXOID(_, _)
InsertByUTXOID(u, sorted) ==
    IF sorted = <<>> THEN <<u>>
    ELSE IF UTXOIDLess(u.UTXOID, Head(sorted).UTXOID) THEN <<u>> \o sorted
    ELSE <<Head(sorted)>> \o InsertByUTXOID(u, Tail(sorted))
RECURSIVE SortTransferableInputsWithSigners(_)
SortTransferableInputsWithSigners(us) ==
    IF us = <<>> THEN <<>>
    ELSE InsertByUTXOID(Head(us), SortTransferableInputsWithSigners(Tail(us)))

(* SortEVMOutputs: by address, then asset id *)
RECURSIVE InsertEVMOutput(_, _)
InsertEVMOutput(o, sorted) ==
    IF sorted = <<>> THEN <<o>>
    ELSE IF EVMLess(o, Head(sorted)) THEN <<o>> \o sorted
    ELSE <<Head(sorted)>> \o InsertEVMOutput(o, Tail(sorted))
RECURSIVE SortEVMOutputs(_)
SortEVMOutputs(outs) ==
    IF outs = <<>> THEN <<>>
    ELSE InsertEVMOutput(Head(outs), SortEVMOutputs(Tail(outs)))

(* importedAmount[assetID] after the loop *)
ImportedAmount(spent, assetID) ==
    AddAmounts([i \in 1..Len(spent) |-> <<spent[i].AssetID, spent[i].Amt>>],
               assetID, 0)

(* The loop over importedAmount: one output per asset other than the       *)
(* native one that has an amount                                           *)
RECURSIVE OtherAssetOuts(_, _, _, _)
OtherAssetOuts(assets, spent, to, c) ==
    IF assets = {} THEN <<>>
    ELSE LET id == CHOOSE x \in assets : \A y \in assets : x <= y
         IN  (IF id = c.AXCAssetID \/ ImportedAmount(spent, id) = 0
              THEN <<>>
              ELSE <<[Address |-> to, AssetID |-> id,
                      Amount |-> ImportedAmount(spent, id)]>>)
             \o OtherAssetOuts(assets \ {id}, spent, to, c)

(* Mutant: the fee with a change output is that without *)
ImportFeeEstimate_NoChangeGas(tx, r, bf) ==
    IF r.IsApricotPhase3
    THEN IF bf = NilBaseFee
         THEN [err |-> "errNilBaseFeeApricotPhase3",
               withoutChange |-> 0, withChange |-> 0]
         ELSE [err |-> Nil,
               withoutChange |->
                  calculateDynamicFee(ImportGasUsed(tx, r.IsApricotPhase5),
                                      bf).fee,
               withChange |->
                  calculateDynamicFee(ImportGasUsed(tx, r.IsApricotPhase5),
                                      bf).fee]
    ELSE IF r.IsApricotPhase2
    THEN [err |-> Nil, withoutChange |-> AxiaAtomicTxFee,
          withChange |-> AxiaAtomicTxFee]
    ELSE [err |-> Nil, withoutChange |-> 0, withChange |-> 0]

(* The switch on the rules: the fee of the transaction tx, which has no    *)
(* native output yet, and its fee with one more output                     *)
ImportFeeEstimate(tx, r, bf) ==
    IF r.IsApricotPhase3
    THEN IF bf = NilBaseFee
         THEN [err |-> "errNilBaseFeeApricotPhase3",
               withoutChange |-> 0, withChange |-> 0]
         ELSE [err |-> Nil,
               withoutChange |->
                  calculateDynamicFee(ImportGasUsed(tx, r.IsApricotPhase5),
                                      bf).fee,
               withChange |->
                  calculateDynamicFee(ImportGasUsed(tx, r.IsApricotPhase5)
                                      + EVMOutputGas, bf).fee]
    ELSE IF r.IsApricotPhase2
    THEN [err |-> Nil, withoutChange |-> AxiaAtomicTxFee,
          withChange |-> AxiaAtomicTxFee]
    ELSE [err |-> Nil, withoutChange |-> 0, withChange |-> 0]

(* Mutant: an empty list of outputs is not refused *)
ImportAXCOutput_NoEmptyCheck(outs, to, importedAXCAmount, est, c) ==
    IF importedAXCAmount < est.withoutChange
    THEN [err |-> "errInsufficientFundsForFee", outs |-> <<>>]
    ELSE [err |-> Nil,
          outs |-> IF importedAXCAmount > est.withChange
                   THEN Append(outs,
                               [Address |-> to, AssetID |-> c.AXCAssetID,
                                Amount |-> importedAXCAmount - est.withChange])
                   ELSE outs]

(* The native output: what is left of the imported native amount after the *)
(* fee, if anything                                                        *)
ImportAXCOutput(outs, to, importedAXCAmount, est, c) ==
    LET withAXC == IF importedAXCAmount > est.withChange
                   THEN Append(outs,
                               [Address |-> to, AssetID |-> c.AXCAssetID,
                                Amount |-> importedAXCAmount - est.withChange])
                   ELSE outs
    IN  IF importedAXCAmount < est.withoutChange
        THEN [err |-> "errInsufficientFundsForFee", outs |-> <<>>]
        ELSE IF withAXC = <<>>
        THEN [err |-> "errNoEVMOutputs", outs |-> <<>>]
        ELSE [err |-> Nil, outs |-> withAXC]

(* The result is [tx, creds, err]; tx is NilImportTx where the code returns *)
(* a nil transaction.  The signers of an input are the keys kc.Spend found *)
(* for its UTXO: the key of its owner; Sign makes a credential of each.    *)
newImportTxWithUTXOs(chainID, to, bf, keys, atomicUTXOs, c, r) ==
    LET spent == SortTransferableInputsWithSigners(SpendLoop(atomicUTXOs, keys))
        importedInputs == [i \in 1..Len(spent) |->
                             [UTXOID |-> spent[i].UTXOID,
                              AssetID |-> spent[i].AssetID,
                              Amt |-> spent[i].Amt,
                              SigIndices |-> <<0>>]]
        signers == [i \in 1..Len(spent) |-> <<spent[i].Owner>>]
        outs == OtherAssetOuts(AssetIDs, spent, to, c)
        utx0 == [kind |-> "import", NetworkID |-> c.NetworkID,
                 BlockchainID |-> c.ChainID, SourceChain |-> chainID,
                 ImportedInputs |-> importedInputs, Outs |-> outs]
        est == ImportFeeEstimate(utx0, r, bf)
        res == ImportAXCOutput(outs, to, ImportedAmount(spent, c.AXCAssetID),
                               est, c)
        tx == [utx0 EXCEPT !.Outs = SortEVMOutputs(res.outs)]
    IN  IF est.err # Nil
        THEN [tx |-> NilImportTx, creds |-> <<>>, err |-> est.err]
        ELSE IF res.err # Nil
        THEN [tx |-> NilImportTx, creds |-> <<>>, err |-> res.err]
        ELSE [tx |-> tx, creds |-> Sign(signers),
              err |-> ImportVerify(tx, c, r)]

(* keys stands for the keychain made of the keys *)
newImportTx(chainID, to, bf, keys, vm, c, r) ==
    newImportTxWithUTXOs(chainID, to, bf, keys,
                         GetAtomicUTXOs(vm.sharedMemory, chainID, keys), c, r)

---------------------------------------------------------------------------
(* Amounts at their width.  A uint64 or a big.Int is held as its limbs of  *)
(* base x2cRate, the lowest first, without leading zero limbs; <<>> is 0.  *)
(* An operator takes the value of each argument once, as the bound         *)
(* variable of a set constructor, and computes on the values.              *)

Limb == x2cRate

RECURSIVE WideOf(_)
WideOf(n) == IF n = 0 THEN <<>> ELSE <<n % Limb>> \o WideOf(n \div Limb)

RECURSIVE WideAddCarry(_, _, _)
WideAddCarry(x, y, carry) ==
    IF x = <<>> /\ y = <<>>
    THEN IF carry = 0 THEN <<>> ELSE <<carry>>
    ELSE LET a == IF x = <<>> THEN 0 ELSE Head(x)
             b == IF y = <<>> THEN 0 ELSE Head(y)
         IN  <<(a + b + carry) % Limb>>
             \o WideAddCarry(IF x = <<>> THEN <<>> ELSE Tail(x),
                             IF y = <<>> THEN <<>> ELSE Tail(y),
                             (a + b + carry) \div Limb)
WideAdd(x, y) ==
    CHOOSE sum \in {WideAddCarry(a, b, 0) : a \in {x}, b \in {y}} : TRUE

WideLess(x, y) ==
    \E a \in {x}, b \in {y} :
       IF Len(a) # Len(b) THEN Len(a) < Len(b)
       ELSE \E i \in 1..Len(a) :
               /\ a[i] < b[i]
               /\ \A j \in (i + 1)..Len(a) : a[j] = b[j]

RECURSIVE WideTrim(_)
WideTrim(x) ==
    IF x = <<>> THEN <<>>
    ELSE IF x[Len(x)] = 0 THEN WideTrim(SubSeq(x, 1, Len(x) - 1))
    ELSE x

RECURSIVE WideSubBorrow(_, _, _)
WideSubBorrow(x, y, borrow) ==
    IF x = <<>> THEN <<>>
    ELSE LET b == IF y = <<>> THEN 0 ELSE Head(y)
             d == Head(x) - b - borrow
         IN  <<IF d < 0 THEN d + Limb ELSE d>>
             \o WideSubBorrow(Tail(x), IF y = <<>> THEN <<>> ELSE Tail(y),
                              IF d < 0 THEN 1 ELSE 0)

(* x - y, for x >= y *)
WideSub(x, y) ==
    CHOOSE diff \in {WideTrim(d) :
                       d \in {WideSubBorrow(a, b, 0) : a \in {x}, b \in {y}}} :
       TRUE

(* A number below 2^31 as an integer *)
IntOf(x) ==
    CHOOSE n \in {IF a = <<>> THEN 0
                  ELSE IF Len(a) = 1 THEN a[1]
                  ELSE a[1] + Limb * a[2] : a \in {x}} : TRUE

(* x * n for an integer n, by doubling *)
RECURSIVE WideTimes(_, _)
WideTimes(x, n) ==
    IF n = 0 THEN <<>>
    ELSE CHOOSE product \in
            {IF n % 2 = 1 THEN WideAdd(WideAdd(h, h), x) ELSE WideAdd(h, h) :
                h \in {WideTimes(x, n \div 2)}} : TRUE

(* x * y, for y below 2^31 *)
WideMul(x, y) ==
    CHOOSE product \in {WideTimes(a, n) : a \in {x}, n \in {IntOf(y)}} : TRUE

(* (x + x2cRate - 1) / x2cRate *)
WideDivX2cRateRoundingUp(x) ==
    CHOOSE q \in {IF a = <<>> THEN <<>>
                  ELSE WideAdd(Tail(a), IF Head(a) > 0 THEN <<1>> ELSE <<>>) :
                     a \in {x}} : TRUE

(* math.MaxUint64 = 18,446,744,073,709,551,615 *)
MaxUint64 == <<709551615, 446744073, 18>>
TwoTo64 == <<709551616, 446744073, 18>>
IsUint64(x) == ~WideLess(MaxUint64, x)

(* a + b and a - b of two uint64: the result modulo 2^64 *)
Plus64(a, b) ==
    CHOOSE r \in {IF IsUint64(sum) THEN sum ELSE WideSub(sum, TwoTo64) :
                     sum \in {WideAdd(a, b)}} : TRUE
Minus64(a, b) ==
    CHOOSE r \in {IF WideLess(x, y) THEN WideSub(WideAdd(x, TwoTo64), y)
                  ELSE WideSub(x, y) : x \in {a}, y \in {b}} : TRUE

(* math.Add64, math.Mul64, math.Sub64 *)
Add64(a, b) ==
    CHOOSE r \in {IF WideLess(WideSub(MaxUint64, y), x)
                  THEN [err |-> "errOverflow", val |-> <<>>]
                  ELSE [err |-> Nil, val |-> Plus64(x, y)] :
                     x \in {a}, y \in {b}} : TRUE
Mul64(a, b) ==
    CHOOSE r \in {IF ~IsUint64(product)
                  THEN [err |-> "errOverflow", val |-> <<>>]
                  ELSE [err |-> Nil, val |-> product] :
                     product \in {WideMul(a, b)}} : TRUE
Sub64Wide(a, b) ==
    CHOOSE r \in {IF WideLess(x, y)
                  THEN [err |-> "errUnderflow", val |-> <<>>]
                  ELSE [err |-> Nil, val |-> Minus64(x, y)] :
                     x \in {a}, y \in {b}} : TRUE

(* Mutant: the loops of Burned add without a check *)
RECURSIVE AddAmounts64_Unchecked(_, _, _)
AddAmounts64_Unchecked(items, assetID, acc) ==
    IF items = <<>> THEN [err |-> Nil, val |-> acc]
    ELSE IF Head(items)[1] # assetID
    THEN AddAmounts64_Unchecked(Tail(items), assetID, acc)
    ELSE CHOOSE r \in
            {AddAmounts64_Unchecked(Tail(items), assetID, sum) :
                sum \in {Plus64(acc, Head(items)[2])}} : TRUE

(* The loops of Burned and of newImportTxWithUTXOs over <<asset, amount>>   *)
(* pairs: math.Add64 on each amount of the asset, returning at the first    *)
(* error                                                                    *)
RECURSIVE AddAmounts64(_, _, _)
AddAmounts64(items, assetID, acc) ==
    IF items = <<>> THEN [err |-> Nil, val |-> acc]
    ELSE IF Head(items)[1] # assetID
    THEN AddAmounts64(Tail(items), assetID, acc)
    ELSE CHOOSE r \in
            {IF sum.err # Nil THEN [err |-> sum.err, val |-> <<>>]
             ELSE AddAmounts64(Tail(items), assetID, sum.val) :
                sum \in {Add64(acc, Head(items)[2])}} : TRUE

(* Burned *)
Burned64(produced, consumed, assetID) ==
    CHOOSE r \in
       {IF spent.err # Nil THEN spent
        ELSE IF input.err # Nil THEN input
        ELSE Sub64Wide(input.val, spent.val) :
           spent \in {AddAmounts64(produced, assetID, <<>>)},
           input \in {AddAmounts64(consumed, assetID, <<>>)}} : TRUE
ImportBurned64(tx, assetID) ==
    Burned64(ImportProduced(tx), ImportConsumed(tx), assetID)
ExportBurned64(tx, assetID) ==
    Burned64(ExportProduced(tx), ExportConsumed(tx), assetID)

(* GasUsed *)
RECURSIVE ImportInputsCost64(_, _)
ImportInputsCost64(ins, cost) ==
    IF ins = <<>> THEN [err |-> Nil, val |-> cost]
    ELSE CHOOSE r \in
            {IF inCost.err # Nil THEN inCost
             ELSE CHOOSE q \in
                     {IF sum.err # Nil THEN sum
                      ELSE ImportInputsCost64(Tail(ins), sum.val) :
                         sum \in {Add64(cost, inCost.val)}} : TRUE :
                inCost \in {Mul64(WideOf(Len(Head(ins).SigIndices)),
                                  WideOf(CostPerSignature))}} :
            TRUE

ImportGasUsed64(tx, fixedFee) ==
    CHOOSE r \in
       {IF cost.err # Nil THEN cost
        ELSE IF fixedFee THEN Add64(cost.val, WideOf(AtomicTxBaseCost))
        ELSE cost :
           cost \in {ImportInputsCost64(
                        tx.ImportedInputs,
                        WideOf(calcBytesCost(ImportUnsignedBytesLen(tx))))}} :
       TRUE

ExportGasUsed64(tx, fixedFee) ==
    CHOOSE r \in
       {IF sigCost.err # Nil THEN sigCost
        ELSE CHOOSE q \in
                {IF cost.err # Nil THEN cost
                 ELSE IF fixedFee
                 THEN Add64(cost.val, WideOf(AtomicTxBaseCost))
                 ELSE cost :
                    cost \in
                       {Add64(WideOf(calcBytesCost(ExportUnsignedBytesLen(tx))),
                              sigCost.val)}} : TRUE :
           sigCost \in {Mul64(WideOf(Len(tx.Ins)),
                              WideOf(CostPerSignature))}} : TRUE

(* A base fee at its width: the wei of a *big.Int, or nil *)
NilBaseFee64 == [isNil |-> TRUE, wei |-> <<>>]

(* Mutant: the IsUint64 test is missing, and a fee beyond 64 bits is        *)
(* returned less 2^64                                                      *)
calculateDynamicFee64_Wrapping(cost, bf) ==
    IF bf.isNil THEN [err |-> "errNilBaseFee", val |-> <<>>]
    ELSE CHOOSE r \in
            {[err |-> Nil,
              val |-> IF IsUint64(feeInNAXC) THEN feeInNAXC
                      ELSE WideSub(feeInNAXC, TwoTo64)] :
                feeInNAXC \in
                   {WideDivX2cRateRoundingUp(WideMul(bf.wei, cost))}} : TRUE

(* Mutant: the division by x2cRate rounds down *)
calculateDynamicFee64_RoundingDown(cost, bf) ==
    IF bf.isNil THEN [err |-> "errNilBaseFee", val |-> <<>>]
    ELSE CHOOSE r \in
            {IF ~IsUint64(feeInNAXC)
             THEN [err |-> "errFeeOverflow", val |-> <<>>]
             ELSE [err |-> Nil, val |-> feeInNAXC] :
                feeInNAXC \in
                   {CHOOSE q \in {IF a = <<>> THEN <<>> ELSE Tail(a) :
                                     a \in {WideMul(bf.wei, cost)}} : TRUE}} :
            TRUE

(* calculateDynamicFee: cost * baseFee, divided by x2cRate rounding up,    *)
(* refused if it is not a uint64                                           *)
calculateDynamicFee64(cost, bf) ==
    IF bf.isNil THEN [err |-> "errNilBaseFee", val |-> <<>>]
    ELSE CHOOSE r \in
            {IF ~IsUint64(feeInNAXC)
             THEN [err |-> "errFeeOverflow", val |-> <<>>]
             ELSE [err |-> Nil, val |-> feeInNAXC] :
                feeInNAXC \in
                   {WideDivX2cRateRoundingUp(WideMul(bf.wei, cost))}} : TRUE

(* The fee SemanticVerify produces *)
ImportTxFee64(tx, r, bf) ==
    IF r.IsApricotPhase3
    THEN CHOOSE res \in
            {IF gasUsed.err # Nil THEN gasUsed
             ELSE calculateDynamicFee64(gasUsed.val, bf) :
                gasUsed \in {ImportGasUsed64(tx, r.IsApricotPhase5)}} : TRUE
    ELSE IF r.IsApricotPhase2
    THEN [err |-> Nil, val |-> WideOf(AxiaAtomicTxFee)]
    ELSE [err |-> Nil, val |-> <<>>]
ExportTxFee64(tx, r, bf) ==
    IF r.IsApricotPhase3
    THEN CHOOSE res \in
            {IF gasUsed.err # Nil THEN gasUsed
             ELSE calculateDynamicFee64(gasUsed.val, bf) :
                gasUsed \in {ExportGasUsed64(tx, r.IsApricotPhase5)}} : TRUE
    ELSE [err |-> Nil, val |-> WideOf(AxiaAtomicTxFee)]

(* newImportTxWithUTXOs on amounts at their width, up to the signing of the *)
(* transaction.  The result is [tx, err].                                   *)
ImportedAmount64(spent, assetID) ==
    AddAmounts64([i \in 1..Len(spent) |-> <<spent[i].AssetID, spent[i].Amt>>],
                 assetID, <<>>)

RECURSIVE OtherAssetOuts64(_, _, _, _)
OtherAssetOuts64(assets, spent, to, c) ==
    IF assets = {} THEN <<>>
    ELSE LET id == CHOOSE x \in assets : \A y \in assets : x <= y
         IN  (CHOOSE outs \in
                 {IF id = c.AXCAssetID \/ amount = <<>> THEN <<>>
                  ELSE <<[Address |-> to, AssetID |-> id, Amount |-> amount]>> :
                     amount \in {ImportedAmount64(spent, id).val}} : TRUE)
             \o OtherAssetOuts64(assets \ {id}, spent, to, c)

(* The fees of the transaction tx, which has no native output yet, and of  *)
(* tx with one more output                                                 *)
ImportDynamicFees64(gasUsedWithoutChange, bf) ==
    CHOOSE est \in
       {IF txFeeWithoutChange.err # Nil
        THEN [err |-> txFeeWithoutChange.err,
              withoutChange |-> <<>>, withChange |-> <<>>]
        ELSE IF txFeeWithChange.err # Nil
        THEN [err |-> txFeeWithChange.err,
              withoutChange |-> <<>>, withChange |-> <<>>]
        ELSE [err |-> Nil, withoutChange |-> txFeeWithoutChange.val,
              withChange |-> txFeeWithChange.val] :
           txFeeWithoutChange \in
              {calculateDynamicFee64(gasUsedWithoutChange, bf)},
           txFeeWithChange \in
              {calculateDynamicFee64(Plus64(gasUsedWithoutChange,
                                            WideOf(EVMOutputGas)), bf)}} : TRUE

ImportFeeEstimate64(tx, r, bf) ==
    IF r.IsApricotPhase3
    THEN IF bf.isNil
         THEN [err |-> "errNilBaseFeeApricotPhase3",
               withoutChange |-> <<>>, withChange |-> <<>>]
         ELSE CHOOSE est \in
                 {IF gasUsedWithoutChange.err # Nil
                  THEN [err |-> gasUsedWithoutChange.err,
                        withoutChange |-> <<>>, withChange |-> <<>>]
                  ELSE ImportDynamicFees64(gasUsedWithoutChange.val, bf) :
                     gasUsedWithoutChange \in
                        {ImportGasUsed64(tx, r.IsApricotPhase5)}} : TRUE
    ELSE IF r.IsApricotPhase2
    THEN [err |-> Nil, withoutChange |-> WideOf(AxiaAtomicTxFee),
          withChange |-> WideOf(AxiaAtomicTxFee)]
    ELSE [err |-> Nil, withoutChange |-> <<>>, withChange |-> <<>>]

ImportAXCOutput64(outs, to, importedAXCAmount, est, c) ==
    CHOOSE res \in
       {IF WideLess(importedAXCAmount, est.withoutChange)
        THEN [err |-> "errInsufficientFundsForFee", outs |-> <<>>]
        ELSE IF withAXC = <<>>
        THEN [err |-> "errNoEVMOutputs", outs |-> <<>>]
        ELSE [err |-> Nil, outs |-> withAXC] :
           withAXC \in
              {IF WideLess(est.withChange, importedAXCAmount)
               THEN Append(outs,
                           [Address |-> to, AssetID |-> c.AXCAssetID,
                            Amount |-> Minus64(importedAXCAmount,
                                               est.withChange)])
               ELSE outs}} : TRUE

(* UnsignedImportTx.Verify of a transaction whose amounts are limb         *)
(* sequences.  Verify reads of an amount only whether it is zero, so it is *)
(* applied to the transaction with every amount replaced by 0 where it is  *)
(* zero and by 1 where it is not.                                          *)
ImportVerify64(tx, c, r) ==
    IF IsNilTx(tx) THEN "errNilTx"
    ELSE ImportVerify(
            [tx EXCEPT
                !.ImportedInputs =
                   [i \in 1..Len(tx.ImportedInputs) |->
                      [tx.ImportedInputs[i] EXCEPT
                          !.Amt = IF tx.ImportedInputs[i].Amt = <<>> THEN 0
                                  ELSE 1]],
                !.Outs =
                   [i \in 1..Len(tx.Outs) |->
                      [tx.Outs[i] EXCEPT
                          !.Amount = IF tx.Outs[i].Amount = <<>> THEN 0
                                     ELSE 1]]],
            c, r)

(* The result is [tx, creds, err]: the transaction, the credentials Sign  *)
(* attached to it, and the error of its Verify under the current rules     *)
newImportTxWithUTXOs64(chainID, to, bf, keys, atomicUTXOs, c, r) ==
    LET spendable == SpendLoop(atomicUTXOs, keys)
        spent == SortTransferableInputsWithSigners(spendable)
        importedInputs == [i \in 1..Len(spent) |->
                             [UTXOID |-> spent[i].UTXOID,
                              AssetID |-> spent[i].AssetID,
                              Amt |-> spent[i].Amt,
                              SigIndices |-> <<0>>]]
        signers == [i \in 1..Len(spent) |-> <<spent[i].Owner>>]
    IN  IF \E id \in AssetIDs : ImportedAmount64(spendable, id).err # Nil
        THEN [tx |-> NilImportTx, creds |-> <<>>, err |-> "errOverflow"]
        ELSE CHOOSE built \in
                {IF est.err # Nil
                 THEN [tx |-> NilImportTx, creds |-> <<>>, err |-> est.err]
                 ELSE CHOOSE signed \in
                         {IF res.err # Nil
                          THEN [tx |-> NilImportTx, creds |-> <<>>,
                                err |-> res.err]
                          ELSE [tx |-> [utx0 EXCEPT
                                           !.Outs = SortEVMOutputs(res.outs)],
                                creds |-> Sign(signers),
                                err |-> ImportVerify64(
                                           [utx0 EXCEPT
                                              !.Outs =
                                                 SortEVMOutputs(res.outs)],
                                           c, r)] :
                             res \in
                                {ImportAXCOutput64(
                                    utx0.Outs, to,
                                    ImportedAmount64(spent, c.AXCAssetID).val,
                                    est, c)}} : TRUE :
                    utx0 \in
                       {[kind |-> "import", NetworkID |-> c.NetworkID,
                         BlockchainID |-> c.ChainID, SourceChain |-> chainID,
                         ImportedInputs |-> importedInputs,
                         Outs |-> OtherAssetOuts64(AssetIDs, spent, to, c)]},
                    est \in
                       {ImportFeeEstimate64(
                           [kind |-> "import",
                            ImportedInputs |-> importedInputs,
                            Outs |-> OtherAssetOuts64(AssetIDs, spent, to, c)],
                           r, bf)}} : TRUE

(* newExportTx: the native amount asked of the ledger, the fee included    *)
(* where the fee is flat                                                   *)
ExportAXCNeeded64(assetID, amount, c, r) ==
    LET axcNeeded == IF assetID # c.AXCAssetID THEN <<>> ELSE amount
    IN  IF r.IsApricotPhase3 THEN [err |-> Nil, val |-> axcNeeded]
        ELSE CHOOSE res \in
                {IF newAxcNeeded.err # Nil
                 THEN [err |-> "errOverflowExport", val |-> <<>>]
                 ELSE newAxcNeeded :
                    newAxcNeeded \in
                       {Add64(axcNeeded, WideOf(AxiaAtomicTxFee))}} : TRUE

---------------------------------------------------------------------------
(* Values the variables hold while no operation of their part has run *)

(* No manager, no hub and no handler constructed *)
NotConstructed == [constructed |-> FALSE]
ConcurrentPartsIdle ==
    /\ am = NotConstructed
    /\ backendWallets = <<>>
    /\ calls = <<>>
    /\ update = NotConstructed
    /\ hub = NotConstructed
    /\ handler = NotConstructed

NoTx == [kind |-> "none"]
NoRet == [kind |-> "none"]
EmptyState ==
    [balance |-> [a \in Addresses |-> [hi |-> 0, lo |-> 0]],
     multicoin |-> [a \in Addresses |-> [id \in AssetIDs |-> 0]],
     nonce |-> [a \in Addresses |-> 0]]

---------------------------------------------------------------------------
(* Structural verification: Verify applied to one transaction under one    *)
(* rule set.                                                               *)

UTXOIDs == {[TxID |-> 1, OutputIndex |-> 1], [TxID |-> 2, OutputIndex |-> 0]}

(* Imported inputs: the two UTXOs with a value, and one without a value *)
VerifyImportedInputs ==
    {[UTXOID |-> u, AssetID |-> ctx.AXCAssetID, Amt |-> 1,
      SigIndices |-> <<0>>] : u \in UTXOIDs}
    \cup {[UTXOID |-> [TxID |-> 1, OutputIndex |-> 1],
           AssetID |-> ctx.AXCAssetID, Amt |-> 0,
           SigIndices |-> <<0>>]}

(* EVM outputs: every (address, asset) with amount 1, one of them again    *)
(* with another amount, and one without a value                            *)
VerifyOuts ==
    [Address : Addresses, AssetID : AssetIDs, Amount : {1}]
    \cup {[Address |-> 1, AssetID |-> ctx.AXCAssetID, Amount |-> 2],
          [Address |-> 1, AssetID |-> ctx.AXCAssetID, Amount |-> 0]}

VerifyImportTxs ==
    {NilImportTx} \cup
    [kind : {"import"},
     NetworkID : {ctx.NetworkID, ctx.NetworkID + 1},
     BlockchainID : {ctx.ChainID, UnknownChainID},
     SourceChain : Chains,
     ImportedInputs : SeqUpTo(VerifyImportedInputs, MaxIns),
     Outs : SeqUpTo(VerifyOuts, MaxOuts)]

(* EVM inputs: every (address, asset) with amount 1 and one without value *)
VerifyIns ==
    [Address : Addresses, AssetID : AssetIDs, Amount : {1}, Nonce : {0}]
    \cup {[Address |-> 1, AssetID |-> ctx.AXCAssetID, Amount |-> 0, Nonce |-> 0]}

(* Exported outputs *)
VerifyExportedOutputs ==
    {[AssetID |-> ctx.AXCAssetID, Amt |-> 1, Addr |-> 1],
     [AssetID |-> ctx.AXCAssetID, Amt |-> 2, Addr |-> 1],
     [AssetID |-> ANTAssetID, Amt |-> 1, Addr |-> 1],
     [AssetID |-> ctx.AXCAssetID, Amt |-> 0, Addr |-> 1]}

VerifyExportTxs ==
    {NilExportTx} \cup
    [kind : {"export"},
     NetworkID : {ctx.NetworkID, ctx.NetworkID + 1},
     BlockchainID : {ctx.ChainID, UnknownChainID},
     DestinationChain : Chains,
     Ins : SeqUpTo(VerifyIns, MaxIns),
     ExportedOutputs : SeqUpTo(VerifyExportedOutputs, MaxOuts)]

InitIdle ==
    /\ utx = NoTx
    /\ creds = <<>>
    /\ rules = Phase(0)
    /\ baseFee = NilBaseFee
    /\ err = Pending
    /\ op = "none"
    /\ state = EmptyState
    /\ state0 = EmptyState
    /\ sharedMemory = {}
    /\ blocks = <<>>
    /\ bootstrapped = FALSE
    /\ parent = 0
    /\ ret = NoRet
    /\ ConcurrentPartsIdle

DoImportVerify ==
    /\ UNCHANGED ret
    /\ op = "none"
    /\ \E tx \in VerifyImportTxs, r \in RulesSet :
          /\ utx' = tx
          /\ rules' = r
          /\ err' = ImportVerify(tx, ctx, r)
    /\ op' = "ImportVerify"
    /\ UNCHANGED <<creds, baseFee, state, state0, sharedMemory, blocks,
                   bootstrapped, parent>>
    /\ UNCHANGED concurrentVars

DoExportVerify ==
    /\ UNCHANGED ret
    /\ op = "none"
    /\ \E tx \in VerifyExportTxs, r \in RulesSet :
          /\ utx' = tx
          /\ rules' = r
          /\ err' = ExportVerify(tx, ctx, r)
    /\ op' = "ExportVerify"
    /\ UNCHANGED <<creds, baseFee, state, state0, sharedMemory, blocks,
                   bootstrapped, parent>>
    /\ UNCHANGED concurrentVars

NextVerify == DoImportVerify \/ DoExportVerify

SpecVerify == InitIdle /\ [][NextVerify]_vars

---------------------------------------------------------------------------
(* Atomic operations: AtomicOps applied to one transaction *)

DoImportAtomicOps ==
    /\ op = "none"
    /\ \E tx \in {t \in VerifyImportTxs : ~IsNilTx(t)} :
          /\ utx' = tx
          /\ ret' = ImportAtomicOps(tx)
    /\ err' = Nil
    /\ op' = "ImportAtomicOps"
    /\ UNCHANGED <<creds, rules, baseFee, state, state0, sharedMemory, blocks,
                   bootstrapped, parent>>
    /\ UNCHANGED concurrentVars

DoExportAtomicOps ==
    /\ op = "none"
    /\ \E tx \in {t \in VerifyExportTxs : ~IsNilTx(t)} :
          /\ utx' = tx
          /\ ret' = ExportAtomicOps(tx)
    /\ err' = Nil
    /\ op' = "ExportAtomicOps"
    /\ UNCHANGED <<creds, rules, baseFee, state, state0, sharedMemory, blocks,
                   bootstrapped, parent>>
    /\ UNCHANGED concurrentVars

NextOps == DoImportAtomicOps \/ DoExportAtomicOps

SpecOps == InitIdle /\ [][NextOps]_vars

---------------------------------------------------------------------------
(* State transfer: EVMStateTransfer applied once to a ledger *)

MaxBalance == 2

BalanceSet ==
    {[hi |-> 0, lo |-> 0], [hi |-> 0, lo |-> x2cRate - 1]}
    \cup {[hi |-> h, lo |-> 0] : h \in 1..MaxBalance}
NonceSet == {0, 1}
AmountSet == {1, 2}

LedgerSet ==
    [balance : [Addresses -> BalanceSet],
     multicoin : {[a \in Addresses |->
                     [id \in AssetIDs |-> IF id = ANTAssetID THEN m[a] ELSE 0]]
                  : m \in [Addresses -> {0, 1}]},
     nonce : [Addresses -> NonceSet]]

TransferOuts == [Address : Addresses, AssetID : AssetIDs, Amount : AmountSet]

TransferImportTxs ==
    [kind : {"import"}, NetworkID : {ctx.NetworkID},
     BlockchainID : {ctx.ChainID}, SourceChain : {ctx.SwapChainID},
     ImportedInputs : {<<>>}, Outs : SeqUpTo(TransferOuts, MaxOuts)]

TransferIns ==
    {in \in [Address : Addresses, AssetID : AssetIDs, Amount : AmountSet,
             Nonce : NonceSet] :
        in.AssetID = ANTAssetID => in.Amount = 1}

TransferExportTxs ==
    [kind : {"export"}, NetworkID : {ctx.NetworkID},
     BlockchainID : {ctx.ChainID}, DestinationChain : {ctx.SwapChainID},
     Ins : SeqUpTo(TransferIns, MaxIns), ExportedOutputs : {<<>>}]

InitTransfer ==
    /\ utx = NoTx
    /\ creds = <<>>
    /\ rules = Phase(0)
    /\ baseFee = NilBaseFee
    /\ err = Pending
    /\ op = "none"
    /\ state \in LedgerSet
    /\ state0 = state
    /\ sharedMemory = {}
    /\ blocks = <<>>
    /\ bootstrapped = FALSE
    /\ parent = 0
    /\ ret = NoRet
    /\ ConcurrentPartsIdle

DoImportTransfer ==
    /\ UNCHANGED ret
    /\ op = "none"
    /\ \E tx \in TransferImportTxs :
          LET res == ImportEVMStateTransfer(tx, ctx, state) IN
          /\ utx' = tx
          /\ err' = res.err
          /\ state' = res.state
    /\ state0' = state
    /\ op' = "ImportEVMStateTransfer"
    /\ UNCHANGED <<creds, rules, baseFee, sharedMemory, blocks, bootstrapped,
                   parent>>
    /\ UNCHANGED concurrentVars

DoExportTransfer ==
    /\ UNCHANGED ret
    /\ op = "none"
    /\ \E tx \in TransferExportTxs :
          LET res == ExportEVMStateTransfer(tx, ctx, state) IN
          /\ utx' = tx
          /\ err' = res.err
          /\ state' = res.state
    /\ state0' = state
    /\ op' = "ExportEVMStateTransfer"
    /\ UNCHANGED <<creds, rules, baseFee, sharedMemory, blocks, bootstrapped,
                   parent>>
    /\ UNCHANGED concurrentVars

NextTransfer == DoImportTransfer \/ DoExportTransfer

SpecTransfer == InitTransfer /\ [][NextTransfer]_vars

---------------------------------------------------------------------------
(* Semantic verification: SemanticVerify applied to one signed transaction *)
(* under one rule set and base fee, by a VM that is or is not bootstrapped *)
(* and whose shared memory holds one of a few contents.                    *)

U1 == [TxID |-> 1, OutputIndex |-> 1]
U2 == [TxID |-> 2, OutputIndex |-> 0]

(* Amounts below and just above the flat fee *)
FeeAmounts == {1, 2, AxiaAtomicTxFee + 1, AxiaAtomicTxFee + 2}

SemImportedInputs ==
    {[UTXOID |-> U1, AssetID |-> ctx.AXCAssetID, Amt |-> a,
      SigIndices |-> <<0>>] : a \in FeeAmounts}
    \cup {[UTXOID |-> U1, AssetID |-> ANTAssetID, Amt |-> 1,
           SigIndices |-> <<0>>],
          [UTXOID |-> U2, AssetID |-> ctx.AXCAssetID, Amt |-> 1,
           SigIndices |-> <<0>>]}
    \cup {[UTXOID |-> U2, AssetID |-> ANTAssetID, Amt |-> a,
           SigIndices |-> <<0>>] : a \in {1, 2}}

SemOuts ==
    {[Address |-> 1, AssetID |-> ctx.AXCAssetID, Amount |-> a] : a \in {1, 2}}
    \cup {[Address |-> 1, AssetID |-> ANTAssetID, Amount |-> 1],
          [Address |-> 2, AssetID |-> ctx.AXCAssetID, Amount |-> 1]}

SemImportTxs ==
    [kind : {"import"},
     NetworkID : {ctx.NetworkID},
     BlockchainID : {ctx.ChainID},
     SourceChain : {ctx.SwapChainID},
     ImportedInputs : SeqUpTo(SemImportedInputs, MaxIns),
     Outs : SeqUpTo(SemOuts, MaxOuts)]

SemIns ==
    {[Address |-> 1, AssetID |-> ctx.AXCAssetID, Amount |-> a, Nonce |-> 0] :
        a \in FeeAmounts}
    \cup {[Address |-> 1, AssetID |-> ANTAssetID, Amount |-> 1, Nonce |-> 0],
          [Address |-> 2, AssetID |-> ctx.AXCAssetID, Amount |-> 1, Nonce |-> 0]}
    \cup {[Address |-> 2, AssetID |-> ANTAssetID, Amount |-> a, Nonce |-> 0] :
             a \in {1, 2}}

SemExportedOutputs ==
    {[AssetID |-> ctx.AXCAssetID, Amt |-> 1, Addr |-> 1],
     [AssetID |-> ctx.AXCAssetID, Amt |-> 2, Addr |-> 1],
     [AssetID |-> ANTAssetID, Amt |-> 1, Addr |-> 1]}

SemExportTxs ==
    [kind : {"export"},
     NetworkID : {ctx.NetworkID},
     BlockchainID : {ctx.ChainID},
     DestinationChain : {ctx.SwapChainID},
     Ins : SeqUpTo(SemIns, MaxIns),
     ExportedOutputs : SeqUpTo(SemExportedOutputs, MaxOuts)]

(* A credential with the signature of key 1, of key 2, or with none *)
Credentials == {Credential(<<1>>), Credential(<<2>>), Credential(<<>>)}

(* The nil credential, a credential of another type, and a credential with *)
(* a signature from which no public key is recovered; the lists of         *)
(* credentials handed to SemanticVerify hold one of them alone, or after   *)
(* the credential of key 1                                                 *)
OddCredentials ==
    {NilCredential, OtherCredential, Credential(<<MalformedSig>>)}
CredentialLists ==
    SeqUpTo(Credentials, MaxIns)
    \cup {<<c>> : c \in OddCredentials}
    \cup {<<Credential(<<1>>), c>> : c \in OddCredentials}

(* Base fees of 1 wei and of 1 GWei *)
BaseFees == {[isNil |-> FALSE, hi |-> 0, lo |-> 1],
             [isNil |-> FALSE, hi |-> 1, lo |-> 0]}

(* A block has a base fee from phase 3 on and none before *)
FeeSettings ==
    {<<Phase(n), NilBaseFee>> : n \in {0, 1, 2}}
    \cup ({Phase(3), Phase(5)} \X (BaseFees \cup {NilBaseFee}))

UTXOEntry(u, assetID, amt, owner) ==
    [Chain |-> ctx.SwapChainID, UTXOID |-> u,
     Value |-> [isUTXO |-> TRUE, AssetID |-> assetID, Amt |-> amt,
               Owner |-> owner]]

Memories ==
    {{},
     {UTXOEntry(U1, ctx.AXCAssetID, AxiaAtomicTxFee + 1, 1),
      UTXOEntry(U2, ANTAssetID, 2, 1)},
     {UTXOEntry(U1, ctx.AXCAssetID, 1, 2),
      [Chain |-> ctx.SwapChainID, UTXOID |-> U2, Value |-> Garbage]}}

VM == [bootstrapped |-> bootstrapped, sharedMemory |-> sharedMemory,
       blocks |-> blocks]

InitSemantic ==
    /\ utx = NoTx
    /\ creds = <<>>
    /\ rules = Phase(0)
    /\ baseFee = NilBaseFee
    /\ err = Pending
    /\ op = "none"
    /\ state = EmptyState
    /\ state0 = EmptyState
    /\ sharedMemory \in Memories
    /\ blocks = <<>>
    /\ bootstrapped \in BOOLEAN
    /\ parent = Genesis
    /\ ret = NoRet
    /\ ConcurrentPartsIdle

(* Mutant: an Import that passes is spent from shared memory at once *)
DoImportSemanticVerify_Spends ==
    /\ UNCHANGED ret
    /\ op = "none"
    /\ \E tx \in SemImportTxs, cr \in SeqUpTo(Credentials, MaxIns),
          fs \in FeeSettings :
          /\ utx' = tx
          /\ creds' = cr
          /\ rules' = fs[1]
          /\ baseFee' = fs[2]
          /\ err' = ImportSemanticVerify(tx, cr, ctx, VM, parent, fs[2], fs[1])
          /\ sharedMemory' = IF err' = Nil
                             THEN SharedMemoryApply(sharedMemory,
                                                    ImportAtomicOps(tx))
                             ELSE sharedMemory
    /\ op' = "ImportSemanticVerify"
    /\ UNCHANGED <<state, state0, blocks, bootstrapped, parent>>
    /\ UNCHANGED concurrentVars

DoImportSemanticVerify ==
    /\ UNCHANGED ret
    /\ op = "none"
    /\ \E tx \in SemImportTxs, cr \in SeqUpTo(Credentials, MaxIns),
          fs \in FeeSettings :
          /\ utx' = tx
          /\ creds' = cr
          /\ rules' = fs[1]
          /\ baseFee' = fs[2]
          /\ err' = ImportSemanticVerify(tx, cr, ctx, VM, parent, fs[2], fs[1])
    /\ op' = "ImportSemanticVerify"
    /\ UNCHANGED <<state, state0, sharedMemory, blocks, bootstrapped, parent>>
    /\ UNCHANGED concurrentVars

DoExportSemanticVerify ==
    /\ UNCHANGED ret
    /\ op = "none"
    /\ \E tx \in SemExportTxs, cr \in CredentialLists,
          fs \in FeeSettings :
          /\ utx' = tx
          /\ creds' = cr
          /\ rules' = fs[1]
          /\ baseFee' = fs[2]
          /\ err' = ExportSemanticVerify(tx, cr, ctx, VM, parent, fs[2], fs[1])
    /\ op' = "ExportSemanticVerify"
    /\ UNCHANGED <<state, state0, sharedMemory, blocks, bootstrapped, parent>>
    /\ UNCHANGED concurrentVars

NextSemantic == DoImportSemanticVerify \/ DoExportSemanticVerify

SpecSemantic == InitSemantic /\ [][NextSemantic]_vars

---------------------------------------------------------------------------
(* Fees: SemanticVerify applied to transactions of the native asset whose  *)
(* inputs are one unit below, or exactly, what each fee of each phase      *)
(* requires, with the credentials the inputs call for.                     *)

(* Native amounts around the fee of a transaction with one input and one   *)
(* output of 1: none, 1 wei of base fee, 1 GWei of base fee without and    *)
(* with the fixed base cost, and the flat fee.                             *)
FeeProbeAmounts ==
    {1, 2, 1230, 1231, AtomicTxBaseCost + 1230, AtomicTxBaseCost + 1231,
     AxiaAtomicTxFee, AxiaAtomicTxFee + 1}

FeeImportedInputs ==
    {[UTXOID |-> U1, AssetID |-> ctx.AXCAssetID, Amt |-> a,
      SigIndices |-> <<0>>] :
        a \in FeeProbeAmounts}
    \cup {[UTXOID |-> U2, AssetID |-> ctx.AXCAssetID, Amt |-> 1,
           SigIndices |-> <<0>>]}

FeeOuts ==
    {[Address |-> a, AssetID |-> ctx.AXCAssetID, Amount |-> 1] : a \in Addresses}

FeeImportTxs ==
    [kind : {"import"},
     NetworkID : {ctx.NetworkID},
     BlockchainID : {ctx.ChainID},
     SourceChain : {ctx.SwapChainID},
     ImportedInputs : SeqUpTo(FeeImportedInputs, MaxIns),
     Outs : SeqUpTo(FeeOuts, MaxOuts)]

FeeIns ==
    {[Address |-> 1, AssetID |-> ctx.AXCAssetID, Amount |-> a, Nonce |-> 0] :
        a \in FeeProbeAmounts}
    \cup {[Address |-> 2, AssetID |-> ctx.AXCAssetID, Amount |-> 1, Nonce |-> 0]}

FeeExportedOutputs ==
    {[AssetID |-> ctx.AXCAssetID, Amt |-> 1, Addr |-> a] : a \in Addresses}

FeeExportTxs ==
    [kind : {"export"},
     NetworkID : {ctx.NetworkID},
     BlockchainID : {ctx.ChainID},
     DestinationChain : {ctx.SwapChainID},
     Ins : SeqUpTo(FeeIns, MaxIns),
     ExportedOutputs : SeqUpTo(FeeExportedOutputs, MaxOuts)]

(* One credential per input, signed by the key of the given address *)
SignedBy(addrs) == [i \in 1..Len(addrs) |-> Credential(<<addrs[i]>>)]

InitFee ==
    /\ utx = NoTx
    /\ creds = <<>>
    /\ rules = Phase(0)
    /\ baseFee = NilBaseFee
    /\ err = Pending
    /\ op = "none"
    /\ state = EmptyState
    /\ state0 = EmptyState
    /\ sharedMemory = {}
    /\ blocks = <<>>
    /\ bootstrapped = FALSE
    /\ parent = Genesis
    /\ ret = NoRet
    /\ ConcurrentPartsIdle

DoImportFee ==
    /\ UNCHANGED ret
    /\ op = "none"
    /\ \E tx \in FeeImportTxs, fs \in FeeSettings :
          LET cr == SignedBy([i \in 1..Len(tx.ImportedInputs) |-> 1])
          IN  /\ utx' = tx
              /\ creds' = cr
              /\ rules' = fs[1]
              /\ baseFee' = fs[2]
              /\ err' = ImportSemanticVerify(tx, cr, ctx, VM, parent,
                                             fs[2], fs[1])
    /\ op' = "ImportSemanticVerify"
    /\ UNCHANGED <<state, state0, sharedMemory, blocks, bootstrapped, parent>>
    /\ UNCHANGED concurrentVars

DoExportFee ==
    /\ UNCHANGED ret
    /\ op = "none"
    /\ \E tx \in FeeExportTxs, fs \in FeeSettings :
          LET cr == SignedBy([i \in 1..Len(tx.Ins) |-> tx.Ins[i].Address])
          IN  /\ utx' = tx
              /\ creds' = cr
              /\ rules' = fs[1]
              /\ baseFee' = fs[2]
              /\ err' = ExportSemanticVerify(tx, cr, ctx, VM, parent,
                                             fs[2], fs[1])
    /\ op' = "ExportSemanticVerify"
    /\ UNCHANGED <<state, state0, sharedMemory, blocks, bootstrapped, parent>>
    /\ UNCHANGED concurrentVars

NextFee == DoImportFee \/ DoExportFee

SpecFee == InitFee /\ [][NextFee]_vars

---------------------------------------------------------------------------
(* Shared memory: Import SemanticVerify by a bootstrapped VM, of Imports   *)
(* from the swap chain or the platform chain, against shared memories that *)
(* hold for a UTXO id nothing, a UTXO of the claimed or of another asset,  *)
(* bytes that are no UTXO, or the UTXO under the other chain only.         *)

MemoryEntry(chain, u, value) == [Chain |-> chain, UTXOID |-> u, Value |-> value]
UTXOValue(assetID, amt, owner) ==
    [isUTXO |-> TRUE, AssetID |-> assetID, Amt |-> amt, Owner |-> owner]

StateEntries ==
    {MemoryEntry(ctx.SwapChainID, U1, UTXOValue(ctx.AXCAssetID, 2, 1)),
     MemoryEntry(ctx.SwapChainID, U1, UTXOValue(ANTAssetID, 2, 1)),
     MemoryEntry(PlatformChainID, U1, UTXOValue(ctx.AXCAssetID, 2, 1)),
     MemoryEntry(ctx.SwapChainID, U2, UTXOValue(ANTAssetID, 1, 2)),
     MemoryEntry(ctx.SwapChainID, U2, Garbage)}

(* A shared memory holds one value at most under a chain and key *)
StateMemories ==
    {m \in SUBSET StateEntries :
        \A e1, e2 \in m :
           (e1.Chain = e2.Chain /\ e1.UTXOID = e2.UTXOID) => e1 = e2}

StateImportedInputs ==
    {[UTXOID |-> U1, AssetID |-> ctx.AXCAssetID, Amt |-> a,
      SigIndices |-> <<0>>] : a \in {1, 2}}
    \cup {[UTXOID |-> U2, AssetID |-> ANTAssetID, Amt |-> 1,
           SigIndices |-> <<0>>]}

StateOuts ==
    {[Address |-> 1, AssetID |-> id, Amount |-> 1] : id \in AssetIDs}

StateImportTxs ==
    [kind : {"import"},
     NetworkID : {ctx.NetworkID},
     BlockchainID : {ctx.ChainID},
     SourceChain : {ctx.SwapChainID, PlatformChainID},
     ImportedInputs : SeqUpTo(StateImportedInputs, MaxIns),
     Outs : SeqUpTo(StateOuts, MaxOuts)]

(* No phase and no fee, or phase 5 with a base fee of 1 wei *)
StateFeeSettings ==
    {<<Phase(0), NilBaseFee>>,
     <<Phase(5), [isNil |-> FALSE, hi |-> 0, lo |-> 1]>>}

InitState ==
    /\ utx = NoTx
    /\ creds = <<>>
    /\ rules = Phase(0)
    /\ baseFee = NilBaseFee
    /\ err = Pending
    /\ op = "none"
    /\ state = EmptyState
    /\ state0 = EmptyState
    /\ sharedMemory \in StateMemories
    /\ blocks = <<>>
    /\ bootstrapped = TRUE
    /\ parent = Genesis
    /\ ret = NoRet
    /\ ConcurrentPartsIdle

DoImportStateVerify ==
    /\ UNCHANGED ret
    /\ op = "none"
    /\ \E tx \in StateImportTxs, cr \in CredentialLists,
          fs \in StateFeeSettings :
          /\ utx' = tx
          /\ creds' = cr
          /\ rules' = fs[1]
          /\ baseFee' = fs[2]
          /\ err' = ImportSemanticVerify(tx, cr, ctx, VM, parent, fs[2], fs[1])
    /\ op' = "ImportSemanticVerify"
    /\ UNCHANGED <<state, state0, sharedMemory, blocks, bootstrapped, parent>>
    /\ UNCHANGED concurrentVars

NextState == DoImportStateVerify

SpecState == InitState /\ [][NextState]_vars

---------------------------------------------------------------------------
(* Construction: newImportTx from the swap chain, the platform chain or a  *)
(* chain of another subnet, by a VM whose shared memory holds, under one   *)
(* of these chains, a native UTXO of one of the probe amounts for key 1    *)
(* and possibly a second UTXO, for a keychain of key 1 or of both keys.    *)

(* The chains newImportTx is asked to import from, and under which the     *)
(* shared memory may hold UTXOs                                            *)
BuildChains == {ctx.SwapChainID, PlatformChainID, OtherSubnetChainID}

(* Native amounts around the fees of the transactions that can be built:   *)
(* gas 1170 for one input, 2258 for two, 2318 with an output, with or      *)
(* without the fixed base cost and the gas of the change output, at 1 GWei *)
BuildAmounts ==
    {0, 1, 2, 1169, 1170, 1200, 1230, 1231, 2257, 2317, 2318, 2350, 2378, 2379,
     AtomicTxBaseCost + 1170, AtomicTxBaseCost + 1231,
     AtomicTxBaseCost + 2318, AtomicTxBaseCost + 2350,
     AtomicTxBaseCost + 2379,
     AxiaAtomicTxFee - 1, AxiaAtomicTxFee, AxiaAtomicTxFee + 1}

BuildSecondUTXOs ==
    {{},
     {UTXOEntry(U2, ANTAssetID, 0, 1)},
     {UTXOEntry(U2, ANTAssetID, 1, 1)},
     {UTXOEntry(U2, ANTAssetID, 1, 2)},
     {UTXOEntry(U2, ctx.AXCAssetID, 1, 2)}}

BuildUTXOSets ==
    BuildSecondUTXOs
    \cup {{UTXOEntry(U1, ctx.AXCAssetID, a, 1)} \cup second :
             a \in BuildAmounts, second \in BuildSecondUTXOs}

(* The UTXOs are stored under one chain *)
BuildMemories ==
    {{[e EXCEPT !.Chain = chain] : e \in utxos} :
        utxos \in BuildUTXOSets, chain \in BuildChains}

BuildKeychains == {{1}, {1, 2}}

InitBuild ==
    /\ utx = NoTx
    /\ creds = <<>>
    /\ rules = Phase(0)
    /\ baseFee = NilBaseFee
    /\ err = Pending
    /\ op = "none"
    /\ state = EmptyState
    /\ state0 = EmptyState
    /\ sharedMemory \in BuildMemories
    /\ blocks = <<>>
    /\ bootstrapped = TRUE
    /\ parent = Genesis
    /\ ret = NoRet
    /\ ConcurrentPartsIdle

DoNewImportTx ==
    /\ op = "none"
    /\ \E chainID \in BuildChains, to \in Addresses, keys \in BuildKeychains,
          fs \in FeeSettings :
          LET res == newImportTx(chainID, to, fs[2], keys, VM, ctx, fs[1])
          IN  /\ utx' = res.tx
              /\ creds' = res.creds
              /\ err' = res.err
              /\ rules' = fs[1]
              /\ baseFee' = fs[2]
              /\ ret' = [kind |-> "newImportTx", chainID |-> chainID,
                         to |-> to, keys |-> keys]
    /\ op' = "newImportTx"
    /\ UNCHANGED <<state, state0, sharedMemory, blocks, bootstrapped, parent>>
    /\ UNCHANGED concurrentVars

NextBuild == DoNewImportTx

SpecBuild == InitBuild /\ [][NextBuild]_vars

---------------------------------------------------------------------------
(* The computations on amounts at their width, each applied to amounts at  *)
(* the edges of 64 bits                                                    *)

TwoTo63 == <<854775808, 223372036, 9>>

WideAmounts ==
    {<<>>, WideOf(1), WideOf(AxiaAtomicTxFee), TwoTo63,
     WideSub(MaxUint64, WideOf(1)), MaxUint64}

(* Inputs of either asset with every amount; outputs of the native asset   *)
(* with an amount of 1, 2^63 or 2^64 - 1, and of the other asset with 1    *)
WideImportedInputs ==
    [UTXOID : {[TxID |-> 1, OutputIndex |-> 1]}, AssetID : AssetIDs,
     Amt : WideAmounts, SigIndices : {<<0>>}]
WideOuts ==
    [Address : {1}, AssetID : {ctx.AXCAssetID},
     Amount : {WideOf(1), TwoTo63, MaxUint64}]
    \cup {[Address |-> 1, AssetID |-> ANTAssetID, Amount |-> WideOf(1)]}
WideIns ==
    [Address : {1}, AssetID : AssetIDs, Amount : WideAmounts, Nonce : {0}]
WideExportedOutputs ==
    [AssetID : {ctx.AXCAssetID}, Amt : {WideOf(1), TwoTo63, MaxUint64},
     Addr : {1}]
    \cup {[AssetID |-> ANTAssetID, Amt |-> WideOf(1), Addr |-> 1]}

WideImportTx(ins, outs) ==
    [kind |-> "import", NetworkID |-> ctx.NetworkID,
     BlockchainID |-> ctx.ChainID, SourceChain |-> ctx.SwapChainID,
     ImportedInputs |-> ins, Outs |-> outs]
WideExportTx(ins, outs) ==
    [kind |-> "export", NetworkID |-> ctx.NetworkID,
     BlockchainID |-> ctx.ChainID, DestinationChain |-> ctx.SwapChainID,
     Ins |-> ins, ExportedOutputs |-> outs]

WideImportTxs ==
    {WideImportTx(ins, outs) : ins \in SeqUpTo(WideImportedInputs, MaxIns),
                               outs \in SeqUpTo(WideOuts, MaxOuts)}
WideExportTxs ==
    {WideExportTx(ins, outs) : ins \in SeqUpTo(WideIns, MaxIns),
                               outs \in SeqUpTo(WideExportedOutputs, MaxOuts)}

(* Base fees of 1 wei, of 1 GWei, of 2 * 10^15 GWei and of 2^64 - 1 GWei *)
WideBaseFees ==
    {[isNil |-> FALSE, wei |-> w] :
        w \in {WideOf(1), <<0, 1>>, <<0, 0, 2000000>>,
              <<0>> \o MaxUint64}}

WideFeeSettings ==
    {<<Phase(n), NilBaseFee64>> : n \in {0, 2}}
    \cup ({Phase(3), Phase(5)} \X (WideBaseFees \cup {NilBaseFee64}))

(* The transactions whose fee is computed: every number of inputs and of   *)
(* outputs, each of amount 1                                               *)
WideFeeImportTxs ==
    {WideImportTx([i \in 1..n |-> [UTXOID |-> [TxID |-> 1, OutputIndex |-> 1],
                                   AssetID |-> ctx.AXCAssetID,
                                   Amt |-> WideOf(1),
                                   SigIndices |-> <<0>>]],
                  [i \in 1..m |-> [Address |-> 1, AssetID |-> ctx.AXCAssetID,
                                   Amount |-> WideOf(1)]]) :
        n \in 0..MaxIns, m \in 0..MaxOuts}
WideFeeExportTxs ==
    {WideExportTx([i \in 1..n |-> [Address |-> 1, AssetID |-> ctx.AXCAssetID,
                                   Amount |-> WideOf(1), Nonce |-> 0]],
                  [i \in 1..m |-> [AssetID |-> ctx.AXCAssetID,
                                   Amt |-> WideOf(1), Addr |-> 1]]) :
        n \in 0..MaxIns, m \in 0..MaxOuts}

(* The UTXOs handed to newImportTxWithUTXOs: one or two, of key 1 *)
WideAtomicUTXOs ==
    LET first == [UTXOID : {[TxID |-> 1, OutputIndex |-> 1]},
                  AssetID : AssetIDs, Amt : WideAmounts, Owner : {1}]
        second == [UTXOID : {[TxID |-> 2, OutputIndex |-> 0]},
                   AssetID : AssetIDs, Amt : WideAmounts, Owner : {1}]
    IN  {<<u>> : u \in first}
        \cup {<<u, v>> : u \in first, v \in second}

DoImportBurned64 ==
    /\ op = "none"
    /\ \E tx \in WideImportTxs, id \in AssetIDs :
          /\ utx' = tx
          /\ err' = ImportBurned64(tx, id).err
          /\ ret' = [kind |-> "Burned", assetID |-> id,
                     val |-> ImportBurned64(tx, id).val]
    /\ op' = "ImportBurned64"
    /\ UNCHANGED <<creds, rules, baseFee, state, state0, sharedMemory,
                   blocks, bootstrapped, parent>>
    /\ UNCHANGED concurrentVars

DoExportBurned64 ==
    /\ op = "none"
    /\ \E tx \in WideExportTxs, id \in AssetIDs :
          /\ utx' = tx
          /\ err' = ExportBurned64(tx, id).err
          /\ ret' = [kind |-> "Burned", assetID |-> id,
                     val |-> ExportBurned64(tx, id).val]
    /\ op' = "ExportBurned64"
    /\ UNCHANGED <<creds, rules, baseFee, state, state0, sharedMemory,
                   blocks, bootstrapped, parent>>
    /\ UNCHANGED concurrentVars

DoImportTxFee64 ==
    /\ op = "none"
    /\ \E tx \in WideFeeImportTxs, fs \in WideFeeSettings :
          /\ utx' = tx
          /\ rules' = fs[1]
          /\ baseFee' = fs[2]
          /\ err' = ImportTxFee64(tx, fs[1], fs[2]).err
          /\ ret' = [kind |-> "txFee", val |-> ImportTxFee64(tx, fs[1], fs[2]).val]
    /\ op' = "ImportTxFee64"
    /\ UNCHANGED <<creds, state, state0, sharedMemory, blocks, bootstrapped,
                   parent>>
    /\ UNCHANGED concurrentVars

DoExportTxFee64 ==
    /\ op = "none"
    /\ \E tx \in WideFeeExportTxs, fs \in WideFeeSettings :
          /\ utx' = tx
          /\ rules' = fs[1]
          /\ baseFee' = fs[2]
          /\ err' = ExportTxFee64(tx, fs[1], fs[2]).err
          /\ ret' = [kind |-> "txFee", val |-> ExportTxFee64(tx, fs[1], fs[2]).val]
    /\ op' = "ExportTxFee64"
    /\ UNCHANGED <<creds, state, state0, sharedMemory, blocks, bootstrapped,
                   parent>>
    /\ UNCHANGED concurrentVars

DoNewImportTxWithUTXOs64 ==
    /\ op = "none"
    /\ \E us \in WideAtomicUTXOs, to \in Addresses, fs \in WideFeeSettings,
          chainID \in {ctx.SwapChainID, PlatformChainID} :
          LET res == newImportTxWithUTXOs64(chainID, to, fs[2], {1}, us,
                                            ctx, fs[1])
          IN  /\ utx' = res.tx
              /\ creds' = res.creds
              /\ err' = res.err
              /\ rules' = fs[1]
              /\ baseFee' = fs[2]
              /\ ret' = [kind |-> "newImportTxWithUTXOs", to |-> to,
                         chainID |-> chainID, atomicUTXOs |-> us]
    /\ op' = "newImportTxWithUTXOs64"
    /\ UNCHANGED <<state, state0, sharedMemory, blocks, bootstrapped,
                   parent>>
    /\ UNCHANGED concurrentVars

DoExportAXCNeeded64 ==
    /\ op = "none"
    /\ \E id \in AssetIDs, amount \in WideAmounts, r \in RulesSet :
          /\ rules' = r
          /\ err' = ExportAXCNeeded64(id, amount, ctx, r).err
          /\ ret' = [kind |-> "newExportTx", assetID |-> id, amount |-> amount,
                     val |-> ExportAXCNeeded64(id, amount, ctx, r).val]
    /\ op' = "newExportTx64"
    /\ UNCHANGED <<utx, creds, baseFee, state, state0, sharedMemory, blocks,
                   bootstrapped, parent>>
    /\ UNCHANGED concurrentVars

NextWide ==
    \/ DoImportBurned64
    \/ DoExportBurned64
    \/ DoImportTxFee64
    \/ DoExportTxFee64
    \/ DoNewImportTxWithUTXOs64
    \/ DoExportAXCNeeded64

SpecWide == InitIdle /\ [][NextWide]_vars

---------------------------------------------------------------------------
(* The chain: blocks carrying one Import each are verified on top of the   *)
(* last accepted block or of a processing block, and accepted in chain     *)
(* order, by a VM that starts bootstrapping and finishes it at some point. *)

MaxBlocks == 3

ChainRules == Phase(3)
ChainBaseFee == [isNil |-> FALSE, hi |-> 0, lo |-> 1]

ChainMemory ==
    {UTXOEntry(U1, ctx.AXCAssetID, 2, 1), UTXOEntry(U2, ctx.AXCAssetID, 2, 1)}

ChainInput(u) == [UTXOID |-> u, AssetID |-> ctx.AXCAssetID, Amt |-> 2,
     SigIndices |-> <<0>>]

(* Imports of the first UTXO, of the second, and of both *)
ChainImportTxs ==
    [kind : {"import"},
     NetworkID : {ctx.NetworkID},
     BlockchainID : {ctx.ChainID},
     SourceChain : {ctx.SwapChainID},
     ImportedInputs : {<<ChainInput(U1)>>, <<ChainInput(U2)>>,
                       <<ChainInput(U1), ChainInput(U2)>>},
     Outs : {<<[Address |-> 1, AssetID |-> ctx.AXCAssetID, Amount |-> 1]>>}]

(* One credential per input, signed by the owner of the UTXOs *)
ChainCreds(tx) == [i \in 1..Len(tx.ImportedInputs) |-> Credential(<<1>>)]

InitChain ==
    /\ utx = NoTx
    /\ creds = <<>>
    /\ rules = ChainRules
    /\ baseFee = ChainBaseFee
    /\ err = Pending
    /\ op = "none"
    /\ state = EmptyState
    /\ state0 = EmptyState
    /\ sharedMemory = ChainMemory
    /\ blocks = <<>>
    /\ bootstrapped = FALSE
    /\ parent = Genesis
    /\ ret = NoRet
    /\ ConcurrentPartsIdle

(* The VM leaves bootstrapping *)
FinishBootstrapping ==
    /\ UNCHANGED ret
    /\ ~bootstrapped
    /\ bootstrapped' = TRUE
    /\ op' = "FinishBootstrapping"
    /\ err' = Nil
    /\ UNCHANGED <<utx, creds, rules, baseFee, state, state0, sharedMemory,
                   blocks, parent>>
    /\ UNCHANGED concurrentVars

(* A block with one Import is verified on parent p; it joins the processing *)
(* blocks if SemanticVerify passes.  The field checked records whether the  *)
(* VM was bootstrapped at that time.                                       *)
VerifyBlock ==
    /\ UNCHANGED ret
    /\ Len(blocks) < MaxBlocks
    /\ \E p \in {Genesis} \cup DOMAIN blocks, tx \in ChainImportTxs :
          /\ p = LastAccepted(blocks) \/ BlockStatus(blocks, p) = "Processing"
          /\ utx' = tx
          /\ creds' = ChainCreds(tx)
          /\ parent' = p
          /\ err' = ImportSemanticVerify(tx, ChainCreds(tx), ctx, VM, p,
                                         baseFee, rules)
          /\ blocks' = IF err' = Nil
                       THEN Append(blocks, [Parent |-> p, atomicTxs |-> <<tx>>,
                                            Status |-> "Processing",
                                            checked |-> bootstrapped])
                       ELSE blocks
    /\ op' = "VerifyBlock"
    /\ UNCHANGED <<rules, baseFee, state, state0, sharedMemory, bootstrapped>>
    /\ UNCHANGED concurrentVars

(* Consensus accepts a processing child of the last accepted block: its     *)
(* Import's removals are applied to shared memory and its outputs credited  *)
AcceptBlock ==
    /\ UNCHANGED ret
    /\ \E b \in DOMAIN blocks :
          /\ blocks[b].Status = "Processing"
          /\ blocks[b].Parent = LastAccepted(blocks)
          /\ blocks' = AcceptedChain(blocks, b)
          /\ utx' = blocks[b].atomicTxs[1]
          /\ parent' = blocks[b].Parent
          /\ sharedMemory' =
                SharedMemoryApply(sharedMemory,
                                  ImportAtomicOps(blocks[b].atomicTxs[1]))
          /\ state0' = state
          /\ state' = ImportEVMStateTransfer(blocks[b].atomicTxs[1], ctx,
                                             state).state
    /\ op' = "AcceptBlock"
    /\ err' = Nil
    /\ UNCHANGED <<creds, rules, baseFee, bootstrapped>>
    /\ UNCHANGED concurrentVars

NextChain == FinishBootstrapping \/ VerifyBlock \/ AcceptBlock

SpecChain == InitChain /\ [][NextChain]_vars

---------------------------------------------------------------------------
(* The order of checks the specification gives for Verify, stated as a     *)
(* list of <<violated, error>> pairs, and the error of the first violated  *)
(* one.                                                                    *)

FirstViolated(checks) ==
    IF \E i \in 1..Len(checks) : checks[i][1]
    THEN checks[CHOOSE i \in 1..Len(checks) :
                    /\ checks[i][1]
                    /\ \A j \in 1..(i - 1) : ~checks[j][1]][2]
    ELSE Nil

NumViolated(checks) == Cardinality({i \in 1..Len(checks) : checks[i][1]})

KeyLess(a, b) ==
    \/ a[1] < b[1]
    \/ a[1] = b[1] /\ a[2] < b[2]

EVMKey(x) == <<x.Address, x.AssetID>>
UTXOKey(in) == <<in.UTXOID.TxID, in.UTXOID.OutputIndex>>

(* Some element of the list comes before an earlier element *)
OutOfOrder(keys) ==
    \E i \in 1..(Len(keys) - 1) : KeyLess(keys[i + 1], keys[i])

(* Two elements of the list have the same key *)
HasDuplicate(keys) ==
    \E i, j \in 1..Len(keys) : i # j /\ keys[i] = keys[j]

EVMKeys(xs) == [i \in 1..Len(xs) |-> EVMKey(xs[i])]
UTXOKeys(ins) == [i \in 1..Len(ins) |-> UTXOKey(ins[i])]

PeerChainLegal(chain, r) ==
    IF r.IsApricotPhase5
    THEN chain # ctx.ChainID /\ SubnetOf(chain) = ctx.SubnetID
    ELSE chain = ctx.SwapChainID

OutsPolicyViolated(outs, r) ==
    IF r.IsApricotPhase2
    THEN OutOfOrder(EVMKeys(outs)) \/ HasDuplicate(EVMKeys(outs))
    ELSE r.IsApricotPhase1 /\ OutOfOrder(EVMKeys(outs))

OutsPolicyError(r) ==
    IF r.IsApricotPhase2 THEN "errOutputsNotSortedUnique"
    ELSE "errOutputsNotSorted"

(* The checks of UnsignedImportTx.Verify before the output sort policy *)
ImportChecksBeforeOuts(tx, r) ==
    LET ok == ~IsNilTx(tx) IN
    << <<IsNilTx(tx), "errNilTx">>,
       <<ok /\ tx.ImportedInputs = <<>>, "errNoImportInputs">>,
       <<ok /\ tx.NetworkID # ctx.NetworkID, "errWrongNetworkID">>,
       <<ok /\ tx.BlockchainID # ctx.ChainID, "errWrongBlockchainID">>,
       <<ok /\ r.IsApricotPhase3 /\ tx.Outs = <<>>, "errNoEVMOutputs">>,
       <<ok /\ ~PeerChainLegal(tx.SourceChain, r), "errWrongChainID">>,
       <<ok /\ \E i \in 1..Len(tx.Outs) : tx.Outs[i].Amount = 0,
         "EVM Output failed verification: errNoValueOutput">>,
       <<ok /\ \E i \in 1..Len(tx.ImportedInputs) : tx.ImportedInputs[i].Amt = 0,
         "atomic input failed verification: errNoValueInput">>,
       <<ok /\ (\/ OutOfOrder(UTXOKeys(tx.ImportedInputs))
                \/ HasDuplicate(UTXOKeys(tx.ImportedInputs))),
         "errInputsNotSortedUnique">> >>

ImportChecks(tx, r) ==
    Append(ImportChecksBeforeOuts(tx, r),
           <<~IsNilTx(tx) /\ OutsPolicyViolated(tx.Outs, r), OutsPolicyError(r)>>)

(* C8: UnsignedImportTx.Verify returns the error of the earliest violated  *)
(* check in the order nil tx, empty inputs, network id, blockchain id,     *)
(* (phase 3) empty outputs, source chain, each output, each input, input   *)
(* sort/uniqueness, output sort policy; and nil iff no check is violated.  *)
C8_ImportVerifyOrder ==
    op = "ImportVerify" => err = FirstViolated(ImportChecks(utx, rules))

(* A transaction violating only the two last checks gets the error of the  *)
(* input sort check.                                                       *)
C8_Witness ==
    /\ op = "ImportVerify"
    /\ NumViolated(ImportChecks(utx, rules)) >= 2
    /\ err = "errInputsNotSortedUnique"

(* The checks of UnsignedExportTx.Verify *)
ExportOutBad(tx, out) ==
    \/ out.Amt = 0
    \/ out.AssetID # ctx.AXCAssetID /\ tx.DestinationChain = PlatformChainID

ExportOutsLoopError(tx) ==
    LET i == CHOOSE k \in 1..Len(tx.ExportedOutputs) :
                /\ ExportOutBad(tx, tx.ExportedOutputs[k])
                /\ \A j \in 1..(k - 1) : ~ExportOutBad(tx, tx.ExportedOutputs[j])
    IN  IF tx.ExportedOutputs[i].Amt = 0
        THEN "errNoValueOutput" ELSE "errWrongChainID"

TransferableOutputKeyLess(a, b) ==
    \/ a.AssetID < b.AssetID
    \/ a.AssetID = b.AssetID /\ KeyLess(<<a.Amt, a.Addr>>, <<b.Amt, b.Addr>>)

ExportChecks(tx, r) ==
    LET ok == ~IsNilTx(tx)
        outsBad == ok /\ \E i \in 1..Len(tx.ExportedOutputs) :
                            ExportOutBad(tx, tx.ExportedOutputs[i])
    IN
    << <<IsNilTx(tx), "errNilTx">>,
       <<ok /\ tx.ExportedOutputs = <<>>, "errNoExportOutputs">>,
       <<ok /\ tx.NetworkID # ctx.NetworkID, "errWrongNetworkID">>,
       <<ok /\ tx.BlockchainID # ctx.ChainID, "errWrongBlockchainID">>,
       <<ok /\ ~PeerChainLegal(tx.DestinationChain, r), "errWrongChainID">>,
       <<ok /\ \E i \in 1..Len(tx.Ins) : tx.Ins[i].Amount = 0,
         "errNoValueInput">>,
       <<outsBad, IF outsBad THEN ExportOutsLoopError(tx) ELSE Nil>>,
       <<ok /\ \E i \in 1..(Len(tx.ExportedOutputs) - 1) :
                  TransferableOutputKeyLess(tx.ExportedOutputs[i + 1],
                                            tx.ExportedOutputs[i]),
         "errOutputsNotSorted">>,
       <<ok /\ r.IsApricotPhase1
            /\ (OutOfOrder(EVMKeys(tx.Ins)) \/ HasDuplicate(EVMKeys(tx.Ins))),
         "errInputsNotSortedUnique">> >>

(* C9: UnsignedExportTx.Verify returns the error of the earliest violated  *)
(* check in the order nil tx, empty exported outputs, network id,          *)
(* blockchain id, destination chain, each input, each output together with *)
(* its native-asset check, exported-output sort, (phase 1) input           *)
(* sort/uniqueness.                                                        *)
C9_ExportVerifyOrder ==
    op = "ExportVerify" => err = FirstViolated(ExportChecks(utx, rules))

(* An export to the platform chain whose first output is a valid output of *)
(* another asset and whose second output has no value: the asset check of  *)
(* the first output wins over the Verify of the second.                    *)
C9_Witness ==
    /\ op = "ExportVerify"
    /\ err = "errWrongChainID"
    /\ ~IsNilTx(utx)
    /\ PeerChainLegal(utx.DestinationChain, rules)
    /\ Len(utx.ExportedOutputs) = 2
    /\ utx.ExportedOutputs[1].Amt # 0
    /\ utx.ExportedOutputs[2].Amt = 0

(* C10: the ordering policy Verify applies to Outs depends only on the     *)
(* phase: with no phase any order and duplicates pass; in phase 1 (not 2)  *)
(* out-of-order outputs fail with errOutputsNotSorted and equal            *)
(* neighbours pass; from phase 2 on out-of-order and duplicate (address,   *)
(* assetID) outputs fail with errOutputsNotSortedUnique.                   *)
C10_OutsOrderPolicy ==
    (/\ op = "ImportVerify"
     /\ NumViolated(ImportChecksBeforeOuts(utx, rules)) = 0)
    => LET keys == EVMKeys(utx.Outs) IN
       /\ ~rules.IsApricotPhase1 /\ ~rules.IsApricotPhase2 => err = Nil
       /\ rules.IsApricotPhase1 /\ ~rules.IsApricotPhase2 =>
            /\ OutOfOrder(keys) => err = "errOutputsNotSorted"
            /\ ~OutOfOrder(keys) => err = Nil
       /\ rules.IsApricotPhase2 =>
            /\ OutOfOrder(keys) \/ HasDuplicate(keys)
                  => err = "errOutputsNotSortedUnique"
            /\ ~OutOfOrder(keys) /\ ~HasDuplicate(keys) => err = Nil

(* In phase 1 two outputs to the same (address, assetID) with different    *)
(* amounts pass Verify.                                                    *)
C10_Witness ==
    /\ op = "ImportVerify"
    /\ rules.IsApricotPhase1 /\ ~rules.IsApricotPhase2
    /\ err = Nil
    /\ Len(utx.Outs) = 2
    /\ EVMKey(utx.Outs[1]) = EVMKey(utx.Outs[2])
    /\ utx.Outs[1].Amount # utx.Outs[2].Amount

---------------------------------------------------------------------------
(* Claims about EVMStateTransfer *)

BalancesUnchanged ==
    /\ state.balance = state0.balance
    /\ state.multicoin = state0.multicoin

(* The amount of the input exceeds what the account holds of its asset *)
Exceeds(st, in) ==
    IF in.AssetID = ctx.AXCAssetID
    THEN st.balance[in.Address].hi < in.Amount
    ELSE st.multicoin[in.Address][in.AssetID] < in.Amount

(* C2: Export EVMStateTransfer on a ledger in which some input's address   *)
(* has a nonce other than the input's fails and leaves every native and    *)
(* multi-asset balance as it was.  (The claim also names the error, the    *)
(* invalid-nonce error; the part stated here is that the call fails and    *)
(* no balance has moved.)                                                  *)
C2_StaleNonceLeavesBalances ==
    (/\ op = "ExportEVMStateTransfer"
     /\ \E i \in 1..Len(utx.Ins) :
           state0.nonce[utx.Ins[i].Address] # utx.Ins[i].Nonce)
    => err # Nil /\ BalancesUnchanged

(* C3: Export EVMStateTransfer with an input whose amount exceeds the      *)
(* account's balance of that asset returns errInsufficientFunds and leaves *)
(* the balances of that account unchanged, whatever the number of inputs.  *)
(* (Stated for calls in which every input's nonce is the account's, so     *)
(* that no other failure is involved.)                                     *)
C3_InsufficientFundsLeavesBalances ==
    (/\ op = "ExportEVMStateTransfer"
     /\ \A i \in 1..Len(utx.Ins) :
           state0.nonce[utx.Ins[i].Address] = utx.Ins[i].Nonce)
    => \A i \in 1..Len(utx.Ins) :
          Exceeds(state0, utx.Ins[i])
          => /\ err = "errInsufficientFunds"
             /\ state.balance[utx.Ins[i].Address] =
                   state0.balance[utx.Ins[i].Address]
             /\ state.multicoin[utx.Ins[i].Address] =
                   state0.multicoin[utx.Ins[i].Address]

TouchedAddresses(tx) == {tx.Ins[i].Address : i \in 1..Len(tx.Ins)}

(* C4: after a successful Export EVMStateTransfer the nonce of every       *)
(* address named by an input is its nonce before plus one, every other     *)
(* nonce is unchanged, and every input's nonce was the account's nonce.    *)
C4_ExportNonces ==
    (op = "ExportEVMStateTransfer" /\ err = Nil)
    => /\ \A a \in Addresses :
            state.nonce[a] = IF a \in TouchedAddresses(utx)
                             THEN state0.nonce[a] + 1
                             ELSE state0.nonce[a]
       /\ \A i \in 1..Len(utx.Ins) :
            utx.Ins[i].Nonce = state0.nonce[utx.Ins[i].Address]

(* A successful export with two inputs of one address, the other address   *)
(* untouched.                                                              *)
C4_Witness ==
    /\ op = "ExportEVMStateTransfer"
    /\ err = Nil
    /\ Len(utx.Ins) = 2
    /\ utx.Ins[1].Address = utx.Ins[2].Address
    /\ state.nonce[utx.Ins[1].Address] = state0.nonce[utx.Ins[1].Address] + 1

(* The sum of the amounts of the outputs to addr of asset id *)
RECURSIVE SumOuts(_, _, _)
SumOuts(outs, addr, id) ==
    IF outs = <<>> THEN 0
    ELSE (IF Head(outs).Address = addr /\ Head(outs).AssetID = id
          THEN Head(outs).Amount ELSE 0) + SumOuts(Tail(outs), addr, id)

(* C5: Import EVMStateTransfer never fails; it adds amount * x2cRate to    *)
(* the native balance for every native output and amount to the            *)
(* multi-asset balance (address, assetID) for every other output, and      *)
(* changes no other balance and no nonce.                                  *)
C5_ImportCredits ==
    op = "ImportEVMStateTransfer"
    => /\ err = Nil
       /\ \A a \in Addresses :
            /\ state.balance[a].hi =
                  state0.balance[a].hi + SumOuts(utx.Outs, a, ctx.AXCAssetID)
            /\ state.balance[a].lo = state0.balance[a].lo
            /\ state.multicoin[a][ctx.AXCAssetID] =
                  state0.multicoin[a][ctx.AXCAssetID]
            /\ \A id \in AssetIDs \ {ctx.AXCAssetID} :
                  state.multicoin[a][id] =
                     state0.multicoin[a][id] + SumOuts(utx.Outs, a, id)
       /\ state.nonce = state0.nonce

(* An import with a native output and an output of another asset to the    *)
(* same address.                                                           *)
C5_Witness ==
    /\ op = "ImportEVMStateTransfer"
    /\ Len(utx.Outs) = 2
    /\ utx.Outs[1].Address = utx.Outs[2].Address
    /\ utx.Outs[1].AssetID = ctx.AXCAssetID
    /\ utx.Outs[2].AssetID # ctx.AXCAssetID
    /\ state.balance[utx.Outs[1].Address] # state0.balance[utx.Outs[1].Address]
    /\ state.multicoin # state0.multicoin

---------------------------------------------------------------------------
(* Claims about the flow check of SemanticVerify *)

SemanticVerifyRan == op \in {"ImportSemanticVerify", "ExportSemanticVerify"}

(* The declared inputs and outputs of a transaction as <<asset, amount>> *)
DeclaredInputs(tx) ==
    IF tx.kind = "import"
    THEN [i \in 1..Len(tx.ImportedInputs) |->
             <<tx.ImportedInputs[i].AssetID, tx.ImportedInputs[i].Amt>>]
    ELSE [i \in 1..Len(tx.Ins) |-> <<tx.Ins[i].AssetID, tx.Ins[i].Amount>>]
DeclaredOutputs(tx) ==
    IF tx.kind = "import"
    THEN [i \in 1..Len(tx.Outs) |-> <<tx.Outs[i].AssetID, tx.Outs[i].Amount>>]
    ELSE [i \in 1..Len(tx.ExportedOutputs) |->
             <<tx.ExportedOutputs[i].AssetID, tx.ExportedOutputs[i].Amt>>]

RECURSIVE SumOfAsset(_, _)
SumOfAsset(items, id) ==
    IF items = <<>> THEN 0
    ELSE (IF Head(items)[1] = id THEN Head(items)[2] ELSE 0)
         + SumOfAsset(Tail(items), id)

(* The fee computed for the active phase, as [err, fee] *)
ComputedFee(tx, r, bf) ==
    IF tx.kind = "import" THEN ImportTxFee(tx, r, bf) ELSE ExportTxFee(tx, r, bf)

ConsumedOf(tx, id) == SumOfAsset(DeclaredInputs(tx), id)
(* What the transaction produces of an asset, the fee included *)
ProducedOf(tx, id, fee) ==
    SumOfAsset(DeclaredOutputs(tx), id) + (IF id = ctx.AXCAssetID THEN fee ELSE 0)

(* C6, as stated: for every transaction that passes SemanticVerify, for    *)
(* each asset the consumed amount equals the produced amount, the fee of   *)
(* the active phase counted as produced native asset.                      *)
C6_FlowEquality ==
    (SemanticVerifyRan /\ err = Nil)
    => \A id \in AssetIDs :
          ConsumedOf(utx, id)
             = ProducedOf(utx, id, ComputedFee(utx, rules, baseFee).fee)

(* C6, amended: for every transaction that passes SemanticVerify, for each *)
(* asset the consumed amount is at least the produced amount, the fee of   *)
(* the active phase counted as produced native asset; the fee is computed  *)
(* without error.  An excess of inputs is allowed (it is burned).          *)
C6_FlowCovered ==
    (SemanticVerifyRan /\ err = Nil)
    => /\ ComputedFee(utx, rules, baseFee).err = Nil
       /\ \A id \in AssetIDs :
             ConsumedOf(utx, id)
                >= ProducedOf(utx, id, ComputedFee(utx, rules, baseFee).fee)

(* A bootstrapped VM accepts an Import that pays a fee and consumes more   *)
(* of the native asset than it produces, fee included.                     *)
C6_Witness ==
    /\ op = "ImportSemanticVerify"
    /\ err = Nil
    /\ bootstrapped
    /\ ComputedFee(utx, rules, baseFee).fee > 0
    /\ ConsumedOf(utx, ctx.AXCAssetID)
          > ProducedOf(utx, ctx.AXCAssetID, ComputedFee(utx, rules, baseFee).fee)

(* Some asset's produced amount, fee included, exceeds its consumed amount *)
Imbalanced(tx, fee) ==
    \E id \in AssetIDs : ProducedOf(tx, id, fee) > ConsumedOf(tx, id)

StructuralError(tx, r) ==
    IF tx.kind = "import" THEN ImportVerify(tx, ctx, r) ELSE ExportVerify(tx, ctx, r)

FlowCheckError(tx) ==
    IF tx.kind = "import"
    THEN "import tx flow check failed due to: errInsufficientFunds"
    ELSE "export tx flow check failed due to: errInsufficientFunds"

(* C7: whenever some asset's produced amount (the required fee included    *)
(* for the native asset) exceeds its consumed amount, SemanticVerify       *)
(* fails, and the failure is the flow-check error for every transaction    *)
(* that reaches the flow check, that is, that passes the structural Verify *)
(* SemanticVerify runs first; for a non-native asset no fee enters, so any *)
(* excess of outputs over inputs fails.                                    *)
C7_ImbalanceFails ==
    (/\ SemanticVerifyRan
     /\ ComputedFee(utx, rules, baseFee).err = Nil
     /\ Imbalanced(utx, ComputedFee(utx, rules, baseFee).fee))
    => /\ err # Nil
       /\ StructuralError(utx, rules) = Nil => err = FlowCheckError(utx)

(* An Export whose native books close, fee included, fails the flow check  *)
(* over another asset.                                                     *)
C7_Witness ==
    /\ op = "ExportSemanticVerify"
    /\ err = FlowCheckError(utx)
    /\ ConsumedOf(utx, ctx.AXCAssetID)
          >= ProducedOf(utx, ctx.AXCAssetID, ComputedFee(utx, rules, baseFee).fee)
    /\ ProducedOf(utx, ANTAssetID, 0) > ConsumedOf(utx, ANTAssetID)

---------------------------------------------------------------------------
(* Claims about double spends along a chain history *)

(* The blocks of the history that ends in block b: b and its ancestors *)
RECURSIVE History(_, _)
History(blks, b) ==
    IF b = Genesis \/ b \notin DOMAIN blks THEN {}
    ELSE {b} \cup History(blks, blks[b].Parent)

ConsumedUTXOs(tx) ==
    {tx.ImportedInputs[i].UTXOID : i \in 1..Len(tx.ImportedInputs)}

(* The blocks of a set whose Import consumes a UTXO that tx consumes *)
Overlapping(blks, bs, tx) ==
    {b \in bs : ConsumedUTXOs(blks[b].atomicTxs[1]) \cap ConsumedUTXOs(tx) # {}}

(* C1, as stated: Import SemanticVerify of a transaction whose InputUTXOs   *)
(* overlap those of a transaction in the history of its parent fails, so    *)
(* that no two accepted blocks of a history consume the same UTXO.          *)
C1_DoubleSpendAlwaysFails ==
    /\ (/\ op = "VerifyBlock"
        /\ Overlapping(blocks, History(blocks, parent), utx) # {})
       => err # Nil
    /\ \A b1, b2 \in DOMAIN blocks :
          (/\ b1 < b2
           /\ blocks[b1].Status = "Accepted"
           /\ blocks[b2].Status = "Accepted")
          => Overlapping(blocks, {b1}, blocks[b2].atomicTxs[1]) = {}

(* C1, amended: when the VM is bootstrapped, Import SemanticVerify of a     *)
(* transaction whose InputUTXOs overlap those of a transaction in the       *)
(* history of its parent fails: with the conflict error if the overlap is   *)
(* with not-yet-accepted ancestors only, and otherwise at the latest at     *)
(* the shared-memory lookup, acceptance having removed the UTXO.  So no     *)
(* block verified by a bootstrapped VM is accepted after a block that       *)
(* consumes one of its UTXOs.  While bootstrapping the check is skipped.    *)
C1_DoubleSpendFailsWhenBootstrapped ==
    /\ (/\ op = "VerifyBlock"
        /\ bootstrapped
        /\ Overlapping(blocks, History(blocks, parent), utx) # {})
       => /\ err # Nil
          /\ (\A b \in Overlapping(blocks, History(blocks, parent), utx) :
                 blocks[b].Status = "Processing")
             => err = "errConflictingAtomicInputs"
    /\ \A b1, b2 \in DOMAIN blocks :
          (/\ b1 < b2
           /\ blocks[b1].Status = "Accepted"
           /\ blocks[b2].Status = "Accepted"
           /\ blocks[b2].checked)
          => Overlapping(blocks, {b1}, blocks[b2].atomicTxs[1]) = {}

(* A bootstrapped VM rejects, with the conflict error, an Import on top of  *)
(* a processing parent whose own parent holds an Import of the same UTXO.   *)
C1_Witness ==
    /\ op = "VerifyBlock"
    /\ bootstrapped
    /\ err = "errConflictingAtomicInputs"
    /\ parent # Genesis
    /\ Overlapping(blocks, {parent}, utx) = {}
    /\ Overlapping(blocks, History(blocks, parent), utx) # {}

---------------------------------------------------------------------------
(* Claims about the peer chain of a transaction *)

VerifyRan == op \in {"ImportVerify", "ExportVerify"}

PeerChain(tx) ==
    IF tx.kind = "import" THEN tx.SourceChain ELSE tx.DestinationChain

(* The transaction passes the checks Verify makes before the peer chain:   *)
(* it is not nil, its inputs (Import) or outputs (Export) are not empty,   *)
(* its network and blockchain ids are the context's, and from phase 3 an   *)
(* Import has an output                                                    *)
ReachesPeerChainCheck(tx, r) ==
    /\ ~IsNilTx(tx)
    /\ tx.NetworkID = ctx.NetworkID
    /\ tx.BlockchainID = ctx.ChainID
    /\ IF tx.kind = "import"
       THEN tx.ImportedInputs # <<>> /\ ~(r.IsApricotPhase3 /\ tx.Outs = <<>>)
       ELSE tx.ExportedOutputs # <<>>

(* C11: before phase 5, for a transaction that reaches the peer chain      *)
(* check, Verify returns errWrongChainID if and only if the peer chain     *)
(* (Import source, Export destination) is not the swap chain.              *)
C11_SwapChainOnlyBeforePhase5 ==
    (VerifyRan /\ ~rules.IsApricotPhase5 /\ ReachesPeerChainCheck(utx, rules))
    => (err = "errWrongChainID" <=> PeerChain(utx) # ctx.SwapChainID)

(* Before phase 5 an Import from the platform chain, valid otherwise, is   *)
(* rejected with errWrongChainID.                                          *)
C11_Witness ==
    /\ op = "ImportVerify"
    /\ ~rules.IsApricotPhase5
    /\ ReachesPeerChainCheck(utx, rules)
    /\ utx.SourceChain = PlatformChainID
    /\ FirstViolated(ImportChecks([utx EXCEPT !.SourceChain = ctx.SwapChainID],
                                  rules)) = Nil
    /\ err = "errWrongChainID"

(* The peer chain is a chain of the local chain's subnet other than the    *)
(* local chain                                                             *)
InLocalSubnet(chain) ==
    chain # ctx.ChainID /\ SubnetOf(chain) = ctx.SubnetID

(* An Export to the platform chain of an asset other than the native one:  *)
(* the other check of Verify that returns errWrongChainID                  *)
ExportsOtherAssetToPlatform(tx) ==
    /\ tx.kind = "export"
    /\ tx.DestinationChain = PlatformChainID
    /\ \E i \in 1..Len(tx.ExportedOutputs) :
          tx.ExportedOutputs[i].AssetID # ctx.AXCAssetID

(* C12, as stated: from phase 5 on Verify accepts as peer chain any chain  *)
(* other than the local chain.                                             *)
C12_AnyChainButSelf ==
    (/\ VerifyRan
     /\ rules.IsApricotPhase5
     /\ ReachesPeerChainCheck(utx, rules)
     /\ PeerChain(utx) # ctx.ChainID
     /\ ~ExportsOtherAssetToPlatform(utx))
    => err # "errWrongChainID"

(* C12, amended: from phase 5 on Verify accepts as peer chain the chains   *)
(* of the local chain's subnet other than the local chain, and rejects     *)
(* with errWrongChainID the local chain and every chain whose subnet is    *)
(* unknown or is another subnet.                                           *)
C12_SameSubnetButSelf ==
    (VerifyRan /\ rules.IsApricotPhase5 /\ ReachesPeerChainCheck(utx, rules))
    => /\ ~InLocalSubnet(PeerChain(utx)) => err = "errWrongChainID"
       /\ (InLocalSubnet(PeerChain(utx)) /\ ~ExportsOtherAssetToPlatform(utx))
          => err # "errWrongChainID"

(* From phase 5 an Export to the platform chain passes Verify. *)
C12_Witness ==
    /\ op = "ExportVerify"
    /\ rules.IsApricotPhase5
    /\ ~IsNilTx(utx)
    /\ utx.DestinationChain = PlatformChainID
    /\ err = Nil

(* C13: from phase 5 on UnsignedImportTx.Verify does not reject the        *)
(* platform chain as source chain (an Import from it that satisfies the    *)
(* other checks passes), and it rejects with errWrongChainID a source      *)
(* chain that is the local chain, a chain of another subnet or an unknown  *)
(* chain id.                                                               *)
C13_ImportSourcePhase5 ==
    (/\ op = "ImportVerify"
     /\ rules.IsApricotPhase5
     /\ ReachesPeerChainCheck(utx, rules))
    => /\ utx.SourceChain = PlatformChainID
          => err = FirstViolated(ImportChecks(
                      [utx EXCEPT !.SourceChain = ctx.SwapChainID], rules))
       /\ utx.SourceChain \in {ctx.ChainID, OtherSubnetChainID, UnknownChainID}
          => err = "errWrongChainID"

(* From phase 5 an Import from the platform chain passes Verify. *)
C13_Witness ==
    /\ op = "ImportVerify"
    /\ rules.IsApricotPhase5
    /\ ~IsNilTx(utx)
    /\ utx.SourceChain = PlatformChainID
    /\ Len(utx.ImportedInputs) = 2
    /\ err = Nil

---------------------------------------------------------------------------
(* Claims about single checks of Verify *)

(* C14: UnsignedImportTx.Verify returns errNoEVMOutputs only for an empty  *)
(* output list under phase 3 rules or later; an Import without outputs     *)
(* that passes the checks before it gets that error from phase 3 on, and   *)
(* before phase 3 it passes Verify if its source chain is legal and its    *)
(* inputs have a value and are strictly increasing.                        *)
C14_NoOutputsFromPhase3 ==
    (op = "ImportVerify" /\ ~IsNilTx(utx))
    => /\ err = "errNoEVMOutputs" => (rules.IsApricotPhase3 /\ utx.Outs = <<>>)
       /\ (/\ utx.Outs = <<>>
           /\ utx.ImportedInputs # <<>>
           /\ utx.NetworkID = ctx.NetworkID
           /\ utx.BlockchainID = ctx.ChainID)
          => IF rules.IsApricotPhase3 THEN err = "errNoEVMOutputs"
             ELSE (/\ PeerChainLegal(utx.SourceChain, rules)
                   /\ \A i \in 1..Len(utx.ImportedInputs) :
                         utx.ImportedInputs[i].Amt # 0
                   /\ ~OutOfOrder(UTXOKeys(utx.ImportedInputs))
                   /\ ~HasDuplicate(UTXOKeys(utx.ImportedInputs)))
                  => err = Nil

(* In phase 2 an Import of two UTXOs without outputs passes Verify. *)
C14_Witness ==
    /\ op = "ImportVerify"
    /\ rules.IsApricotPhase2
    /\ ~rules.IsApricotPhase3
    /\ ~IsNilTx(utx)
    /\ utx.Outs = <<>>
    /\ Len(utx.ImportedInputs) = 2
    /\ err = Nil

StrictlyIncreasing(keys) ==
    \A i, j \in 1..Len(keys) : i < j => KeyLess(keys[i], keys[j])

(* C15: in every phase an Import whose imported inputs are not strictly    *)
(* increasing by UTXO identity, and that passes the checks made before,    *)
(* gets errInputsNotSortedUnique from Verify; so the inputs of an Import   *)
(* that passes Verify are strictly increasing and name no UTXO twice.      *)
C15_InputsStrictlyIncreasing ==
    (op = "ImportVerify" /\ ~IsNilTx(utx))
    => /\ (/\ ~StrictlyIncreasing(UTXOKeys(utx.ImportedInputs))
           /\ FirstViolated(SubSeq(ImportChecksBeforeOuts(utx, rules), 1, 8))
                 = Nil)
          => err = "errInputsNotSortedUnique"
       /\ err = Nil
          => /\ StrictlyIncreasing(UTXOKeys(utx.ImportedInputs))
             /\ \A i, j \in 1..Len(utx.ImportedInputs) :
                   i # j => utx.ImportedInputs[i].UTXOID
                               # utx.ImportedInputs[j].UTXOID

(* With no phase active an Import naming one UTXO twice is rejected. *)
C15_Witness ==
    /\ op = "ImportVerify"
    /\ rules = Phase(0)
    /\ ~IsNilTx(utx)
    /\ Len(utx.ImportedInputs) = 2
    /\ utx.ImportedInputs[1].UTXOID = utx.ImportedInputs[2].UTXOID
    /\ err = "errInputsNotSortedUnique"

(* C16: for an Export that passes the checks made before, Verify returns   *)
(* errOutputsNotSorted in every phase if the exported outputs are out of   *)
(* order, else errInputsNotSortedUnique if phase 1 is active and the EVM   *)
(* inputs are out of order or repeat an (address, assetID), else nil: with *)
(* no phase active any order of inputs and duplicates pass.                *)
C16_ExportOrderPolicy ==
    (/\ op = "ExportVerify"
     /\ FirstViolated(SubSeq(ExportChecks(utx, rules), 1, 7)) = Nil)
    => err = IF \E i \in 1..(Len(utx.ExportedOutputs) - 1) :
                   TransferableOutputKeyLess(utx.ExportedOutputs[i + 1],
                                             utx.ExportedOutputs[i])
             THEN "errOutputsNotSorted"
             ELSE IF /\ rules.IsApricotPhase1
                     /\ ~StrictlyIncreasing(EVMKeys(utx.Ins))
             THEN "errInputsNotSortedUnique"
             ELSE Nil

(* With no phase active an Export with the same input twice passes. *)
C16_Witness ==
    /\ op = "ExportVerify"
    /\ rules = Phase(0)
    /\ ~IsNilTx(utx)
    /\ Len(utx.Ins) = 2
    /\ utx.Ins[1] = utx.Ins[2]
    /\ err = Nil

(* C17: UnsignedExportTx.Verify rejects every Export to the platform chain *)
(* that has an exported output of an asset other than the native one, and  *)
(* the error is errWrongChainID unless an earlier check returns its own    *)
(* error (network or blockchain id, a valueless input, or a valueless      *)
(* output before the first output of another asset); so every Export to    *)
(* the platform chain that passes Verify exports only the native asset.    *)
C17_PlatformExportsNativeOnly ==
    (/\ op = "ExportVerify"
     /\ ~IsNilTx(utx)
     /\ utx.DestinationChain = PlatformChainID)
    => /\ ExportsOtherAssetToPlatform(utx)
          => /\ err # Nil
             /\ (/\ utx.NetworkID = ctx.NetworkID
                 /\ utx.BlockchainID = ctx.ChainID
                 /\ \A i \in 1..Len(utx.Ins) : utx.Ins[i].Amount # 0
                 /\ \E i \in 1..Len(utx.ExportedOutputs) :
                       /\ utx.ExportedOutputs[i].AssetID # ctx.AXCAssetID
                       /\ \A j \in 1..i : utx.ExportedOutputs[j].Amt # 0)
                => err = "errWrongChainID"
       /\ err = Nil
          => \A i \in 1..Len(utx.ExportedOutputs) :
                utx.ExportedOutputs[i].AssetID = ctx.AXCAssetID

(* From phase 5, when the platform chain is a legal destination, an Export *)
(* to it whose second output is of another asset is rejected.              *)
C17_Witness ==
    /\ op = "ExportVerify"
    /\ rules.IsApricotPhase5
    /\ ~IsNilTx(utx)
    /\ utx.DestinationChain = PlatformChainID
    /\ Len(utx.ExportedOutputs) = 2
    /\ utx.ExportedOutputs[1].AssetID = ctx.AXCAssetID
    /\ utx.ExportedOutputs[2].AssetID # ctx.AXCAssetID
    /\ err = "errWrongChainID"

---------------------------------------------------------------------------
(* Claims about the fee SemanticVerify requires *)

(* Gas of the bytes and signatures of a transaction, no base cost added *)
GasWithoutBaseCost(tx) ==
    IF tx.kind = "import" THEN ImportGasUsed(tx, FALSE)
    ELSE ExportGasUsed(tx, FALSE)

(* The dynamic fee: that of the gas used, which includes the fixed base    *)
(* cost exactly when phase 5 is active                                     *)
DynamicFee(tx, r, bf) ==
    calculateDynamicFee(GasWithoutBaseCost(tx)
                        + (IF r.IsApricotPhase5 THEN AtomicTxBaseCost ELSE 0),
                        bf)

(* SemanticVerify demands exactly the fee: it passes the flow check when   *)
(* the inputs cover the outputs plus the fee, and fails it otherwise.      *)
DemandsFee(fee) ==
    err = FlowCheckError(utx) <=> Imbalanced(utx, fee)

(* C18: for every Import that passes the structural Verify, SemanticVerify *)
(* requires of the native asset: nothing before phase 2, the flat          *)
(* AxiaAtomicTxFee in phase 2, and from phase 3 on                         *)
(* calculateDynamicFee(gasUsed, baseFee), gasUsed including the fixed      *)
(* atomic base cost exactly when phase 5 is active (the call's error is    *)
(* returned when the base fee is nil).                                     *)
C18_ImportFeeByPhase ==
    (op = "ImportSemanticVerify" /\ StructuralError(utx, rules) = Nil)
    => IF ~rules.IsApricotPhase2 THEN DemandsFee(0)
       ELSE IF ~rules.IsApricotPhase3 THEN DemandsFee(AxiaAtomicTxFee)
       ELSE IF DynamicFee(utx, rules, baseFee).err # Nil
       THEN err = DynamicFee(utx, rules, baseFee).err
       ELSE DemandsFee(DynamicFee(utx, rules, baseFee).fee)

(* Under phase 5 and a base fee of 1 GWei an Import passes whose input     *)
(* covers its output and a fee of more than the fixed base cost to the     *)
(* unit.                                                                   *)
C18_Witness ==
    /\ op = "ImportSemanticVerify"
    /\ rules.IsApricotPhase5
    /\ baseFee = [isNil |-> FALSE, hi |-> 1, lo |-> 0]
    /\ err = Nil
    /\ ConsumedOf(utx, ctx.AXCAssetID)
          = SumOfAsset(DeclaredOutputs(utx), ctx.AXCAssetID)
            + DynamicFee(utx, rules, baseFee).fee
    /\ DynamicFee(utx, rules, baseFee).fee > AtomicTxBaseCost

(* C19, as stated: for every Import and Export that passes the structural *)
(* Verify, SemanticVerify requires the dynamic fee from phase 3 on and the *)
(* flat AxiaAtomicTxFee in every earlier phase.                            *)
C19_FlatFeeBeforePhase3 ==
    (SemanticVerifyRan /\ StructuralError(utx, rules) = Nil)
    => IF ~rules.IsApricotPhase3 THEN DemandsFee(AxiaAtomicTxFee)
       ELSE IF DynamicFee(utx, rules, baseFee).err # Nil
       THEN err = DynamicFee(utx, rules, baseFee).err
       ELSE DemandsFee(DynamicFee(utx, rules, baseFee).fee)

(* C19, amended: SemanticVerify requires the dynamic fee from phase 3 on   *)
(* for both kinds; before phase 3 it requires the flat AxiaAtomicTxFee of  *)
(* an Export in every phase, and of an Import in phase 2 only: before      *)
(* phase 2 an Import owes no fee.                                          *)
C19_FlatFeeByKind ==
    (SemanticVerifyRan /\ StructuralError(utx, rules) = Nil)
    => IF rules.IsApricotPhase3
       THEN IF DynamicFee(utx, rules, baseFee).err # Nil
            THEN err = DynamicFee(utx, rules, baseFee).err
            ELSE DemandsFee(DynamicFee(utx, rules, baseFee).fee)
       ELSE IF utx.kind = "export" \/ rules.IsApricotPhase2
       THEN DemandsFee(AxiaAtomicTxFee)
       ELSE DemandsFee(0)

(* With no phase active an Export whose inputs cover its outputs but not   *)
(* the whole flat fee fails the flow check.                                *)
C19_Witness ==
    /\ op = "ExportSemanticVerify"
    /\ rules = Phase(0)
    /\ StructuralError(utx, rules) = Nil
    /\ ConsumedOf(utx, ctx.AXCAssetID)
          >= SumOfAsset(DeclaredOutputs(utx), ctx.AXCAssetID)
    /\ ConsumedOf(utx, ctx.AXCAssetID) >= AxiaAtomicTxFee
    /\ err = FlowCheckError(utx)

---------------------------------------------------------------------------
(* Claims about the order of SemanticVerify *)

(* C20: for every Import and Export that fails the structural Verify under *)
(* the given rules, SemanticVerify returns that same error, whatever the   *)
(* base fee, the credentials and the shared memory, and whether or not the *)
(* VM is bootstrapped.                                                     *)
C20_StructuralErrorFirst ==
    (SemanticVerifyRan /\ StructuralError(utx, rules) # Nil)
    => err = StructuralError(utx, rules)

(* A bootstrapped VM with an empty shared memory gets, under phase 3 rules *)
(* with a nil base fee, an Import with the same output twice, no           *)
(* credential and less consumed than produced: the result is the error of  *)
(* Verify about the outputs.                                               *)
C20_Witness ==
    /\ op = "ImportSemanticVerify"
    /\ bootstrapped
    /\ sharedMemory = {}
    /\ rules = Phase(3)
    /\ baseFee = NilBaseFee
    /\ creds = <<>>
    /\ Len(utx.ImportedInputs) = 1
    /\ Len(utx.Outs) = 2
    /\ utx.Outs[1] = utx.Outs[2]
    /\ Imbalanced(utx, 0)
    /\ err = "errOutputsNotSortedUnique"

---------------------------------------------------------------------------
(* Claims about the credentials and the state read by SemanticVerify *)

NumInputs(tx) ==
    IF tx.kind = "import" THEN Len(tx.ImportedInputs) ELSE Len(tx.Ins)

CredentialCountError(tx) ==
    IF tx.kind = "import"
    THEN "import tx contained mismatched number of inputs/credentials"
    ELSE "export tx contained mismatched number of inputs/credentials"

(* The transaction passes Verify, its fee is computed and its flow holds *)
PassesStructureAndFlow(tx, r, bf) ==
    /\ StructuralError(tx, r) = Nil
    /\ ComputedFee(tx, r, bf).err = Nil
    /\ ~Imbalanced(tx, ComputedFee(tx, r, bf).fee)

(* C21: SemanticVerify of an Import or Export whose number of credentials  *)
(* differs from its number of inputs fails; the count is checked after the *)
(* flow check (a transaction that also fails the flow check gets the flow  *)
(* error) and before any shared-memory lookup or signature check (a        *)
(* transaction that passes the flow check gets the count error, whatever   *)
(* the shared memory holds and whether or not the VM is bootstrapped).     *)
C21_CredentialCount ==
    (SemanticVerifyRan /\ Len(creds) # NumInputs(utx))
    => /\ err # Nil
       /\ (/\ StructuralError(utx, rules) = Nil
           /\ ComputedFee(utx, rules, baseFee).err = Nil)
          => err = IF Imbalanced(utx, ComputedFee(utx, rules, baseFee).fee)
                   THEN FlowCheckError(utx)
                   ELSE CredentialCountError(utx)

(* A VM that is not bootstrapped rejects for the count of its credentials  *)
(* an Import of one UTXO, without credential, that passes the flow check.  *)
C21_Witness ==
    /\ op = "ImportSemanticVerify"
    /\ ~bootstrapped
    /\ creds = <<>>
    /\ Len(utx.ImportedInputs) = 1
    /\ PassesStructureAndFlow(utx, rules, baseFee)
    /\ err = CredentialCountError(utx)

(* Credential i is a secp256k1fx credential that holds exactly one         *)
(* signature, made by the key of address a                                 *)
SignedOnceBy(cr, i, a) ==
    /\ i \in DOMAIN cr
    /\ cr[i].Type = "*secp256k1fx.Credential"
    /\ Len(cr[i].Sigs) = 1
    /\ cr[i].Sigs[1] = a

(* C22: Export SemanticVerify succeeds only if every input i has a         *)
(* credential i with exactly one signature whose recovered address is the  *)
(* input's address; an Export that passes the checks made before and whose *)
(* first credential not of that kind holds one signature from which        *)
(* another address is recovered gets errPublicKeySignatureMismatch (a      *)
(* signature from which no key is recovered, a nil credential and a        *)
(* credential of another type fail with their own error).  This holds      *)
(* whether or not the VM is bootstrapped.                                  *)
C22_ExportSignatures ==
    (op = "ExportSemanticVerify")
    => /\ err = Nil
          => /\ Len(creds) = Len(utx.Ins)
             /\ \A i \in 1..Len(utx.Ins) :
                   SignedOnceBy(creds, i, utx.Ins[i].Address)
       /\ (/\ PassesStructureAndFlow(utx, rules, baseFee)
           /\ Len(creds) = Len(utx.Ins)
           /\ \E i \in 1..Len(utx.Ins) :
                 /\ creds[i].Type = "*secp256k1fx.Credential"
                 /\ Len(creds[i].Sigs) = 1
                 /\ creds[i].Sigs[1] # MalformedSig
                 /\ creds[i].Sigs[1] # utx.Ins[i].Address
                 /\ \A j \in 1..(i - 1) :
                       SignedOnceBy(creds, j, utx.Ins[j].Address))
          => err = "errPublicKeySignatureMismatch"

(* A VM that is not bootstrapped rejects an Export of two inputs whose     *)
(* second credential is signed by the key of the first input.              *)
C22_Witness ==
    /\ op = "ExportSemanticVerify"
    /\ ~bootstrapped
    /\ Len(utx.Ins) = 2
    /\ Len(creds) = 2
    /\ SignedOnceBy(creds, 1, utx.Ins[1].Address)
    /\ SignedOnceBy(creds, 2, utx.Ins[1].Address)
    /\ utx.Ins[2].Address # utx.Ins[1].Address
    /\ err = "errPublicKeySignatureMismatch"

(* C23, as stated: while the VM is not bootstrapped, Import SemanticVerify *)
(* accepts every Import that passes the structural and flow checks.        *)
C23_ForceAcceptAfterFlow ==
    (/\ op = "ImportSemanticVerify"
     /\ ~bootstrapped
     /\ PassesStructureAndFlow(utx, rules, baseFee))
    => err = Nil

(* C23, amended: while the VM is not bootstrapped, Import SemanticVerify   *)
(* accepts every Import that passes the structural and flow checks and     *)
(* has as many credentials as inputs, whatever the shared memory holds and *)
(* whatever the credentials sign (no lookup, no spend-condition check, no  *)
(* conflict check); with another number of credentials it is rejected.     *)
C23_ForceAcceptAfterCount ==
    (/\ op = "ImportSemanticVerify"
     /\ ~bootstrapped
     /\ PassesStructureAndFlow(utx, rules, baseFee))
    => err = IF Len(creds) = Len(utx.ImportedInputs) THEN Nil
             ELSE CredentialCountError(utx)

(* A VM that is not bootstrapped and whose shared memory is empty accepts  *)
(* an Import of two UTXOs with two credentials without signature.          *)
C23_Witness ==
    /\ op = "ImportSemanticVerify"
    /\ ~bootstrapped
    /\ sharedMemory = {}
    /\ Len(utx.ImportedInputs) = 2
    /\ creds = <<Credential(<<>>), Credential(<<>>)>>
    /\ err = Nil

(* What the shared memory holds under a chain and a UTXO id *)
StoredUnder(mem, chain, u) ==
    {e.Value : e \in {x \in mem : x.Chain = chain /\ x.UTXOID = u}}

(* The stored value is a UTXO of the input's asset and amount, owned by    *)
(* the one signer of the credential                                        *)
Spendable(in, cred, v) ==
    /\ v.isUTXO
    /\ v.AssetID = in.AssetID
    /\ v.Amt = in.Amt
    /\ Len(cred.Sigs) = 1
    /\ cred.Sigs[1] = v.Owner

(* C24: a bootstrapped VM's Import SemanticVerify succeeds only if every   *)
(* imported input's UTXO id is present in the shared memory of the         *)
(* transaction's source chain, holding a UTXO of the input's asset whose   *)
(* spend condition the credential at the same index satisfies; when an id  *)
(* is absent there (no matter what other chains hold) an Import that       *)
(* passes the checks made before gets the read's error, wrapped and naming *)
(* the source chain.                                                       *)
C24_ImportReadsSourceChain ==
    (op = "ImportSemanticVerify" /\ bootstrapped)
    => /\ err = Nil
          => /\ Len(creds) = Len(utx.ImportedInputs)
             /\ \A i \in 1..Len(utx.ImportedInputs) :
                   \E v \in StoredUnder(sharedMemory, utx.SourceChain,
                                        utx.ImportedInputs[i].UTXOID) :
                      Spendable(utx.ImportedInputs[i], creds[i], v)
       /\ (/\ PassesStructureAndFlow(utx, rules, baseFee)
           /\ Len(creds) = Len(utx.ImportedInputs)
           /\ \E i \in 1..Len(utx.ImportedInputs) :
                 StoredUnder(sharedMemory, utx.SourceChain,
                             utx.ImportedInputs[i].UTXOID) = {})
          => err = "failed to fetch import UTXOs from " \o utx.SourceChain
                   \o " due to: errNotFound"

(* An Import of two UTXOs from the swap chain passes, while the platform   *)
(* chain's shared memory holds a UTXO under the first id too.              *)
C24_Witness ==
    /\ op = "ImportSemanticVerify"
    /\ bootstrapped
    /\ Len(utx.ImportedInputs) = 2
    /\ utx.SourceChain = ctx.SwapChainID
    /\ StoredUnder(sharedMemory, PlatformChainID, U1) # {}
    /\ err = Nil

---------------------------------------------------------------------------
(* Claims about acceptance *)

(* The shared memory after the removal of the Import's UTXOs from its      *)
(* source chain                                                            *)
WithoutInputsOf(mem, tx) ==
    {e \in mem :
        ~(/\ e.Chain = tx.SourceChain
          /\ \E i \in 1..Len(tx.ImportedInputs) :
                tx.ImportedInputs[i].UTXOID = e.UTXOID)}

(* The ledger after every output of the Import is credited *)
CreditedWith(st, tx) ==
    [balance |-> [a \in Addresses |->
                     BigAdd(st.balance[a],
                            MulX2C(SumOuts(tx.Outs, a, ctx.AXCAssetID)))],
     multicoin |-> [a \in Addresses |->
                      [id \in AssetIDs |->
                          IF id = ctx.AXCAssetID THEN st.multicoin[a][id]
                          ELSE st.multicoin[a][id] + SumOuts(tx.Outs, a, id)]],
     nonce |-> st.nonce]

RECURSIVE NativeGrowth(_, _, _)
NativeGrowth(addrs, before, after) ==
    IF addrs = {} THEN 0
    ELSE LET a == CHOOSE x \in addrs : TRUE
         IN  (after.balance[a].hi - before.balance[a].hi)
             + NativeGrowth(addrs \ {a}, before, after)

(* C25: every step either leaves the shared memory and the ledger as they  *)
(* are, or is the acceptance of an Import that does both: it removes every *)
(* UTXO of the Import from the source chain's shared memory, so that none  *)
(* is retrievable afterwards, and credits the Import's outputs, so that    *)
(* the native balances grow by (imported native amount - burned amount) *  *)
(* x2cRate in whole and nothing else of the ledger changes.                *)
C25_RemovalAndCreditTogether ==
    [][\/ sharedMemory' = sharedMemory /\ state' = state
       \/ /\ op' = "AcceptBlock"
          /\ sharedMemory' = WithoutInputsOf(sharedMemory, utx')
          /\ \A i \in 1..Len(utx'.ImportedInputs) :
                StoredUnder(sharedMemory', utx'.SourceChain,
                            utx'.ImportedInputs[i].UTXOID) = {}
          /\ state' = CreditedWith(state, utx')
          /\ ImportBurned(utx', ctx.AXCAssetID).err = Nil
          /\ \A a \in Addresses : state'.balance[a].lo = state.balance[a].lo
          /\ NativeGrowth(Addresses, state, state')
                = ConsumedOf(utx', ctx.AXCAssetID)
                  - ImportBurned(utx', ctx.AXCAssetID).val]_vars

(* An Import of both UTXOs was accepted: the shared memory is empty and    *)
(* the recipient's balance has grown.                                      *)
C25_Witness ==
    /\ op = "AcceptBlock"
    /\ Len(utx.ImportedInputs) = 2
    /\ sharedMemory = {}
    /\ state.balance[1].hi = state0.balance[1].hi + 1
    /\ ImportBurned(utx, ctx.AXCAssetID).val = 3

(* C26: AtomicOps never fails and addresses its request to the peer chain  *)
(* of the transaction.  For an Import the request holds removals only:     *)
(* one key per imported input, the input's UTXO id, in the order of the    *)
(* inputs.  For an Export it holds puts only: one element per exported     *)
(* output, element i keyed by the id of UTXO (txID, i) counting from 0,    *)
(* and no two elements have the same key.                                  *)
C26_AtomicOpsRequest ==
    /\ op = "ImportAtomicOps"
       => /\ err = Nil
          /\ ret.chainID = PeerChain(utx)
          /\ ret.PutRequests = <<>>
          /\ Len(ret.RemoveRequests) = Len(utx.ImportedInputs)
          /\ \A i \in 1..Len(utx.ImportedInputs) :
                ret.RemoveRequests[i] = utx.ImportedInputs[i].UTXOID
    /\ op = "ExportAtomicOps"
       => /\ err = Nil
          /\ ret.chainID = PeerChain(utx)
          /\ ret.RemoveRequests = <<>>
          /\ Len(ret.PutRequests) = Len(utx.ExportedOutputs)
          /\ \A i \in 1..Len(utx.ExportedOutputs) :
                ret.PutRequests[i].Key
                   = [TxID |-> TxIDOf(utx), OutputIndex |-> i - 1]
          /\ \A i, j \in 1..Len(ret.PutRequests) :
                i # j => ret.PutRequests[i].Key # ret.PutRequests[j].Key

(* The request of an Export of the same output twice has two elements. *)
C26_Witness ==
    /\ op = "ExportAtomicOps"
    /\ Len(utx.ExportedOutputs) = 2
    /\ utx.ExportedOutputs[1] = utx.ExportedOutputs[2]
    /\ Len(ret.PutRequests) = 2
    /\ ret.PutRequests[1].Value = ret.PutRequests[2].Value

---------------------------------------------------------------------------
(* Claims about what verification leaves alone *)

(* C27: a step of SemanticVerify (Import or Export), which begins with the *)
(* structural Verify, leaves the shared memory, the ledger (balances,      *)
(* multi-asset balances and nonces) and the block tree as they were,       *)
(* whether it returns nil or an error; so every UTXO an accepted Import    *)
(* names is still in shared memory when SemanticVerify has returned.       *)
C27_VerificationReadsOnly ==
    [][SemanticVerifyRan'
       => /\ sharedMemory' = sharedMemory
          /\ state' = state
          /\ blocks' = blocks
          /\ bootstrapped' = bootstrapped]_vars

(* A bootstrapped VM has verified an Import of two UTXOs without error and *)
(* both UTXOs are still in the shared memory of the source chain.          *)
C27_Witness ==
    /\ op = "ImportSemanticVerify"
    /\ bootstrapped
    /\ err = Nil
    /\ Len(utx.ImportedInputs) = 2
    /\ \A i \in 1..2 :
          StoredUnder(sharedMemory, utx.SourceChain,
                      utx.ImportedInputs[i].UTXOID) # {}

---------------------------------------------------------------------------
(* Claims about newImportTx *)

(* The fee SemanticVerify requires of an Import in the active phase *)
RequiredImportFee(tx, r, bf) ==
    IF ~r.IsApricotPhase2 THEN 0
    ELSE IF ~r.IsApricotPhase3 THEN AxiaAtomicTxFee
    ELSE DynamicFee(tx, r, bf).fee

(* The fee the same transaction would owe with one more EVM output *)
RequiredFeeWithOneMoreOutput(tx, r, bf) ==
    IF ~r.IsApricotPhase3 THEN RequiredImportFee(tx, r, bf)
    ELSE calculateDynamicFee(GasWithoutBaseCost(tx) + EVMOutputGas
                             + (IF r.IsApricotPhase5 THEN AtomicTxBaseCost
                                ELSE 0), bf).fee

HasNativeOutput(tx) ==
    \E i \in 1..Len(tx.Outs) : tx.Outs[i].AssetID = ctx.AXCAssetID

(* C28, as stated: for every Import that newImportTx returns without       *)
(* error, the native amount it burns equals the fee required of it in the  *)
(* active phase.                                                           *)
C28_BurnsExactlyTheFee ==
    (op = "newImportTx" /\ err = Nil)
    => /\ ImportBurned(utx, ctx.AXCAssetID).err = Nil
       /\ ImportBurned(utx, ctx.AXCAssetID).val
             = RequiredImportFee(utx, rules, baseFee)

(* C28, amended: for every Import that newImportTx returns without error,  *)
(* the native amount it burns is at least the fee required of it in the    *)
(* active phase, and equals that fee when the transaction has a native     *)
(* output; when it has none, it burns the whole imported native amount,    *)
(* which is at most the fee it would owe with one more output.             *)
C28_BurnsAtLeastTheFee ==
    (op = "newImportTx" /\ err = Nil)
    => /\ ImportBurned(utx, ctx.AXCAssetID).err = Nil
       /\ ImportBurned(utx, ctx.AXCAssetID).val
             >= RequiredImportFee(utx, rules, baseFee)
       /\ IF HasNativeOutput(utx)
          THEN ImportBurned(utx, ctx.AXCAssetID).val
                  = RequiredImportFee(utx, rules, baseFee)
          ELSE /\ ImportBurned(utx, ctx.AXCAssetID).val
                     = ConsumedOf(utx, ctx.AXCAssetID)
               /\ ImportBurned(utx, ctx.AXCAssetID).val
                     <= RequiredFeeWithOneMoreOutput(utx, rules, baseFee)

(* Under phase 3 and a base fee of 1 GWei newImportTx returns an Import    *)
(* with a native output that burns its fee, of more than 1000.             *)
C28_Witness ==
    /\ op = "newImportTx"
    /\ err = Nil
    /\ rules = Phase(3)
    /\ baseFee = [isNil |-> FALSE, hi |-> 1, lo |-> 0]
    /\ HasNativeOutput(utx)
    /\ Len(utx.Outs) = 2
    /\ ImportBurned(utx, ctx.AXCAssetID).val > CostPerSignature
    /\ ImportBurned(utx, ctx.AXCAssetID).val
          = RequiredImportFee(utx, rules, baseFee)

(* The UTXOs of the source chain that the keys of the call can spend *)
SpendableUTXOs ==
    {e \in sharedMemory : /\ e.Chain = ret.chainID
                          /\ e.Value.isUTXO
                          /\ e.Value.Owner \in ret.keys}

RECURSIVE SumOfEntries(_, _)
SumOfEntries(entries, id) ==
    IF entries = {} THEN 0
    ELSE LET e == CHOOSE x \in entries : TRUE
         IN  (IF e.Value.AssetID = id THEN e.Value.Amt ELSE 0)
             + SumOfEntries(entries \ {e}, id)

OtherAssetsImported ==
    {id \in AssetIDs \ {ctx.AXCAssetID} : SumOfEntries(SpendableUTXOs, id) > 0}

(* The transaction before its native output: one input per spendable UTXO  *)
(* and one output per other asset                                          *)
WithoutNativeOutput ==
    [kind |-> "import",
     ImportedInputs |-> [i \in 1..Cardinality(SpendableUTXOs) |->
                           [SigIndices |-> <<0>>]],
     Outs |-> [i \in 1..Cardinality(OtherAssetsImported) |-> i]]

(* Whether the rules accept the chain as the source of an Import: the swap *)
(* chain, and from phase 5 the platform chain as well                      *)
SourceChainAccepted(chainID, r) ==
    \/ chainID = ctx.SwapChainID
    \/ r.IsApricotPhase5 /\ chainID = PlatformChainID

(* Whether the required fee is defined: under phase 3 it needs a base fee *)
FeeDefined == ~(rules.IsApricotPhase3 /\ baseFee = NilBaseFee)

(* The native amount the keys can spend is below the required fee *)
ShortOfFee ==
    SumOfEntries(SpendableUTXOs, ctx.AXCAssetID)
       < RequiredImportFee(WithoutNativeOutput, rules, baseFee)

(* No output would result: no other asset is imported and the native       *)
(* amount leaves nothing after the fee of a transaction with a native      *)
(* output                                                                  *)
NoOutputLeft ==
    /\ OtherAssetsImported = {}
    /\ SumOfEntries(SpendableUTXOs, ctx.AXCAssetID)
          <= RequiredFeeWithOneMoreOutput(WithoutNativeOutput, rules, baseFee)

(* A transaction is returned with one credential per input, signed by the  *)
(* owner of the UTXO of the input                                          *)
ReturnsSigned ==
    /\ ~IsNilTx(utx)
    /\ Len(creds) = Len(utx.ImportedInputs)
    /\ \A i \in 1..Len(utx.ImportedInputs) :
          \E v \in StoredUnder(sharedMemory, utx.SourceChain,
                               utx.ImportedInputs[i].UTXOID) :
             Spendable(utx.ImportedInputs[i], creds[i], v)

---------------------------------------------------------------------------
(* Claims about arithmetic at 64 bits *)

(* The sum of the amounts of one asset, as a number of any size *)
RECURSIVE ExactSum(_, _)
ExactSum(items, assetID) ==
    IF items = <<>> THEN <<>>
    ELSE WideAdd(IF Head(items)[1] = assetID THEN Head(items)[2] ELSE <<>>,
                 ExactSum(Tail(items), assetID))

(* burned is exactly what the consumed amounts hold beyond the produced *)
ExactlyBurned(burned, produced, consumed, assetID) ==
    /\ IsUint64(ExactSum(produced, assetID))
    /\ IsUint64(ExactSum(consumed, assetID))
    /\ IsUint64(burned)
    /\ WideAdd(burned, ExactSum(produced, assetID))
          = ExactSum(consumed, assetID)

(* fee is gas * wei / x2cRate rounded up, as a number of any size: fee *   *)
(* x2cRate is the least multiple of x2cRate that is at least gas * wei     *)
ExactDynamicFee(fee, gas, wei) ==
    LET product == WideTimes(wei, gas)
        scaled == IF fee = <<>> THEN <<>> ELSE <<0>> \o fee
    IN  /\ ~WideLess(scaled, product)
        /\ WideLess(scaled, WideAdd(product, WideOf(x2cRate)))

ExactTxFee(fee, gas, r, bf) ==
    /\ IsUint64(fee)
    /\ IF r.IsApricotPhase3 THEN ~bf.isNil /\ ExactDynamicFee(fee, gas, bf.wei)
       ELSE fee = WideOf(AxiaAtomicTxFee)

(* The outputs of the built Import hold exactly the imported amount of     *)
(* every other asset, and the imported native amount less the fee of the   *)
(* transaction with a native output, where that is more than nothing       *)
ExactImportOutputs(tx, r, bf) ==
    LET imported(id) == ExactSum(ImportConsumed(tx), id)
        outsOf(id) == {i \in 1..Len(tx.Outs) : tx.Outs[i].AssetID = id}
        native == ctx.AXCAssetID
        gasWithChange ==
            ImportGasUsed([tx EXCEPT !.Outs = <<>>], r.IsApricotPhase5)
            + EVMOutputGas * (Cardinality(outsOf(ANTAssetID)) + 1)
    IN  /\ \A id \in AssetIDs : IsUint64(imported(id))
        /\ \A i \in 1..Len(tx.Outs) : /\ IsUint64(tx.Outs[i].Amount)
                                      /\ tx.Outs[i].Amount # <<>>
        /\ Cardinality(outsOf(ANTAssetID))
              = IF imported(ANTAssetID) = <<>> THEN 0 ELSE 1
        /\ \A i \in outsOf(ANTAssetID) :
              tx.Outs[i].Amount = imported(ANTAssetID)
        /\ Cardinality(outsOf(native)) <= 1
        /\ \A i \in outsOf(native) :
              IF ~r.IsApricotPhase2 THEN tx.Outs[i].Amount = imported(native)
              ELSE \E fee \in {WideSub(imported(native), tx.Outs[i].Amount)} :
                      IF r.IsApricotPhase3
                      THEN ExactTxFee(fee, gasWithChange, r, bf)
                      ELSE fee = WideOf(AxiaAtomicTxFee)

(* C30: no gas, fee or amount computation wraps around at 2^64.  Whenever  *)
(* Burned, GasUsed with the fee of SemanticVerify, the amounts and fees of *)
(* newImportTx, or the native amount newExportTx asks for, are computed    *)
(* without an error, the result is the exact mathematical result and fits  *)
(* 64 bits.                                                                *)
C30_ExactOrError ==
    (err = Nil)
    => /\ (op = "ImportBurned64")
          => ExactlyBurned(ret.val, ImportProduced(utx), ImportConsumed(utx),
                           ret.assetID)
       /\ (op = "ExportBurned64")
          => ExactlyBurned(ret.val, ExportProduced(utx), ExportConsumed(utx),
                           ret.assetID)
       /\ (op = "ImportTxFee64")
          => IF rules.IsApricotPhase2
             THEN ExactTxFee(ret.val,
                             ImportGasUsed(utx, rules.IsApricotPhase5),
                             rules, baseFee)
             ELSE ret.val = <<>>
       /\ (op = "ExportTxFee64")
          => ExactTxFee(ret.val, ExportGasUsed(utx, rules.IsApricotPhase5),
                        rules, baseFee)
       /\ (op = "newImportTxWithUTXOs64")
          => ExactImportOutputs(utx, rules, baseFee)
       /\ (op = "newExportTx64")
          => /\ IsUint64(ret.val)
             /\ ret.val
                   = WideAdd(IF ret.assetID = ctx.AXCAssetID THEN ret.amount
                             ELSE <<>>,
                             IF rules.IsApricotPhase3 THEN <<>>
                             ELSE WideOf(AxiaAtomicTxFee))

(* Burned has met inputs of one asset whose sum is 2^64 or more and has    *)
(* returned errOverflow.                                                   *)
C30_Witness ==
    /\ op = "ImportBurned64"
    /\ ~IsUint64(ExactSum(ImportConsumed(utx), ret.assetID))
    /\ IsUint64(ExactSum(ImportProduced(utx), ret.assetID))
    /\ err = "errOverflow"

---------------------------------------------------------------------------
(* calculateDynamicFee applied to a cost and a base fee, alone, twice in a  *)
(* row, and on the table of TestImportTxGasCost.                            *)

(* The costs handed to calculateDynamicFee: none, one unit, and the gas of  *)
(* the transactions of TestImportTxGasCost                                  *)
DynamicFeeCosts == {0, 1, 1230, 2318, 11230}

(* Base fees in wei: 0, 1, 10^9 - 1, 10^9, 10^9 + 1, 25 GWei, 2^63, 2^64 - 1, *)
(* (2^64 - 1) GWei, (2^64 - 1) GWei + 1 and 2^64 GWei, and the nil pointer  *)
DynamicFeeBaseFees ==
    {NilBaseFee64}
    \cup {[isNil |-> FALSE, wei |-> w] :
             w \in {<<>>, <<1>>, <<x2cRate - 1>>, <<0, 1>>, <<1, 1>>, <<0, 25>>,
                   TwoTo63, MaxUint64, <<0>> \o MaxUint64, <<1>> \o MaxUint64,
                   <<0>> \o TwoTo64}}

(* The transactions of the table of TestImportTxGasCost: n inputs of an    *)
(* asset of 5000000 each, with the signature indices given, and outputs to  *)
(* the first test address                                                  *)
TestImportInput(i, assetID, sigIndices) ==
    [UTXOID |-> [TxID |-> i, OutputIndex |-> 0], AssetID |-> assetID,
     Amt |-> WideOf(5000000), SigIndices |-> sigIndices]
TestImportOut(assetID, amount) ==
    [Address |-> 1, AssetID |-> assetID, Amount |-> WideOf(amount)]
TestSimpleImport ==
    WideImportTx(<<TestImportInput(1, ctx.AXCAssetID, <<0>>)>>,
                 <<TestImportOut(ctx.AXCAssetID, 5000000)>>)

(* The rows of the table of TestImportTxGasCost *)
TestImportTxGasCostTests ==
    {[name |-> "simple import", UnsignedImportTx |-> TestSimpleImport,
      Keys |-> <<<<1>>>>, ExpectedGasUsed |-> 1230,
      ExpectedFee |-> 30750, BaseFee |-> <<0, 25>>, FixedFee |-> FALSE],
     [name |-> "simple import 1wei", UnsignedImportTx |-> TestSimpleImport,
      Keys |-> <<<<1>>>>, ExpectedGasUsed |-> 1230,
      ExpectedFee |-> 1, BaseFee |-> <<1>>, FixedFee |-> FALSE],
     [name |-> "simple import 1wei + fixed fee",
      UnsignedImportTx |-> TestSimpleImport,
      Keys |-> <<<<1>>>>, ExpectedGasUsed |-> 11230,
      ExpectedFee |-> 1, BaseFee |-> <<1>>, FixedFee |-> TRUE],
     [name |-> "simple ANT import",
      UnsignedImportTx |->
         WideImportTx(<<TestImportInput(1, ctx.AXCAssetID, <<0>>),
                        TestImportInput(2, ANTAssetID, <<0>>)>>,
                      <<TestImportOut(ANTAssetID, 5000000)>>),
      Keys |-> <<<<1>>, <<1>>>>, ExpectedGasUsed |-> 2318,
      ExpectedFee |-> 57950, BaseFee |-> <<0, 25>>, FixedFee |-> FALSE],
     [name |-> "complex ANT import",
      UnsignedImportTx |->
         WideImportTx(<<TestImportInput(1, ctx.AXCAssetID, <<0>>),
                        TestImportInput(2, ANTAssetID, <<0>>)>>,
                      <<TestImportOut(ctx.AXCAssetID, 5000000),
                        TestImportOut(ANTAssetID, 5000000)>>),
      Keys |-> <<<<1>>, <<1>>>>, ExpectedGasUsed |-> 2378,
      ExpectedFee |-> 59450, BaseFee |-> <<0, 25>>, FixedFee |-> FALSE],
     [name |-> "multisig import",
      UnsignedImportTx |->
         WideImportTx(<<TestImportInput(1, ctx.AXCAssetID, <<0, 1>>)>>,
                      <<TestImportOut(ctx.AXCAssetID, 5000000)>>),
      Keys |-> <<<<1, 2>>>>, ExpectedGasUsed |-> 2234,
      ExpectedFee |-> 55850, BaseFee |-> <<0, 25>>, FixedFee |-> FALSE],
     [name |-> "large import",
      UnsignedImportTx |->
         WideImportTx([i \in 1..10 |->
                         TestImportInput(i, ctx.AXCAssetID, <<0>>)],
                      <<TestImportOut(ctx.AXCAssetID, 50000000)>>),
      Keys |-> [i \in 1..10 |-> <<1>>], ExpectedGasUsed |-> 11022,
      ExpectedFee |-> 275550, BaseFee |-> <<0, 25>>, FixedFee |-> FALSE]}

DoCalculateDynamicFee ==
    /\ op = "none"
    /\ \E cost \in DynamicFeeCosts, bf \in DynamicFeeBaseFees :
          LET res == calculateDynamicFee64(WideOf(cost), bf)
          IN  /\ baseFee' = bf
              /\ err' = res.err
              /\ ret' = [kind |-> "calculateDynamicFee", cost |-> cost,
                         baseFee |-> bf, err |-> res.err, val |-> res.val]
    /\ op' = "calculateDynamicFee"
    /\ UNCHANGED <<utx, creds, rules, state, state0, sharedMemory, blocks,
                   bootstrapped, parent>>
    /\ UNCHANGED concurrentVars

(* A second call, after a first one returned *)
DoCalculateDynamicFeeAgain ==
    /\ op = "calculateDynamicFee"
    /\ \E cost \in DynamicFeeCosts, bf \in DynamicFeeBaseFees :
          LET res == calculateDynamicFee64(WideOf(cost), bf)
          IN  /\ baseFee' = bf
              /\ err' = res.err
              /\ ret' = [kind |-> "calculateDynamicFee twice", first |-> ret,
                         cost |-> cost, baseFee |-> bf, err |-> res.err,
                         val |-> res.val]
    /\ op' = "calculateDynamicFee twice"
    /\ UNCHANGED <<utx, creds, rules, state, state0, sharedMemory, blocks,
                   bootstrapped, parent>>
    /\ UNCHANGED concurrentVars

(* One row of TestImportTxGasCost: the transaction is signed, its gas is   *)
(* computed and compared with the expected gas, and the fee of that gas at *)
(* the base fee of the row is computed and compared with the expected fee  *)
DoTestImportTxGasCost ==
    /\ op = "none"
    /\ \E test \in TestImportTxGasCostTests :
          LET bf == [isNil |-> FALSE, wei |-> test.BaseFee]
              gasUsed == ImportGasUsed64(test.UnsignedImportTx, test.FixedFee)
              res == calculateDynamicFee64(gasUsed.val, bf)
          IN  /\ utx' = test.UnsignedImportTx
              /\ creds' = Sign(test.Keys)
              /\ baseFee' = bf
              /\ err' = IF gasUsed.err # Nil THEN gasUsed.err
                        ELSE IF gasUsed.val # WideOf(test.ExpectedGasUsed)
                        THEN "Expected gasUsed"
                        ELSE IF res.err # Nil THEN res.err
                        ELSE IF res.val # WideOf(test.ExpectedFee)
                        THEN "Expected fee" ELSE Nil
              /\ ret' = [kind |-> "TestImportTxGasCost", name |-> test.name,
                         gasUsed |-> gasUsed.val, val |-> res.val]
    /\ op' = "TestImportTxGasCost"
    /\ UNCHANGED <<rules, state, state0, sharedMemory, blocks,
                   bootstrapped, parent>>
    /\ UNCHANGED concurrentVars

NextDynamicFee ==
    \/ DoCalculateDynamicFee
    \/ DoCalculateDynamicFeeAgain
    \/ DoTestImportTxGasCost

SpecDynamicFee == InitIdle /\ [][NextDynamicFee]_vars

---------------------------------------------------------------------------
---------------------------------------------------------------------------
(* C32: calculateDynamicFee is monotonic non-decreasing in gasUsed and in   *)
(* baseFee: of two calls that both succeed, the one with the smaller or     *)
(* equal gas and the smaller or equal base fee returns the smaller or equal *)
(* fee; and a fee beyond the uint64 boundary is rejected, never returned    *)
(* wrapped: every call with a base fee returns either errFeeOverflow, when  *)
(* the exact fee is 2^64 or more, or a value below 2^64 that is the exact   *)
(* fee.                                                                     *)
C32_MonotonicAndNeverWrapped ==
    op = "calculateDynamicFee twice" =>
        /\ (/\ ret.first.err = Nil
            /\ ret.err = Nil
            /\ ret.first.cost <= ret.cost
            /\ ~WideLess(ret.baseFee.wei, ret.first.baseFee.wei))
              => ~WideLess(ret.val, ret.first.val)
        /\ \A call \in {ret, ret.first} :
              ~call.baseFee.isNil =>
                 IF WideLess(<<0>> \o MaxUint64,
                             WideTimes(call.baseFee.wei, call.cost))
                 THEN call.err = "errFeeOverflow"
                 ELSE /\ call.err = Nil
                      /\ IsUint64(call.val)
                      /\ ExactDynamicFee(call.val, call.cost, call.baseFee.wei)

(* Two calls that succeed, the second with more gas and a larger base fee   *)
(* and a strictly larger fee, the larger being the last fee below 2^64      *)
C32_Witness ==
    /\ op = "calculateDynamicFee twice"
    /\ ret.first.err = Nil
    /\ ret.err = Nil
    /\ ret.first.cost < ret.cost
    /\ WideLess(ret.first.baseFee.wei, ret.baseFee.wei)
    /\ WideLess(ret.first.val, ret.val)
    /\ ret.val = MaxUint64

---------------------------------------------------------------------------
(* The account manager (src/accounts/manager.go): the cache of wallets of   *)
(* all backends, kept by the goroutine Manager.update from the events of    *)
(* the backends, and the calls AddBackend and Close made to it.             *)

(* Bounds: the events am.updates holds at most (managerSubBufferSize in the *)
(* code) and the number of calls of AddBackend and Close                    *)
MaxUpdates == 1
MaxCalls == 2

(* The backends, the type reflect.TypeOf gives each, and the wallets each   *)
(* may come to know. A wallet is [URL, backend]; a URL is its rank in the   *)
(* order of URL.Cmp.                                                        *)
BackendIDs == {1, 2}
TypeOf(backend) == IF backend = 1 THEN "KeyStore" ELSE "Hub"
Kinds == {TypeOf(b) : b \in BackendIDs}
WalletsOf(backend) ==
    {[URL |-> u, backend |-> backend] :
        u \in IF backend = 1 THEN {1, 3} ELSE {2}}
AllWallets == UNION {WalletsOf(b) : b \in BackendIDs}

(* The listeners that may subscribe to the feed of the manager with         *)
(* Manager.Subscribe                                                        *)
Listeners == {1}

(* URL.Cmp *)
Cmp(a, b) == IF a < b THEN -1 ELSE IF a > b THEN 1 ELSE 0

(* Backend.AxiaWallets: the wallets the backend is aware of, sorted by URL  *)
RECURSIVE SortedByURL(_)
SortedByURL(ws) ==
    IF ws = {} THEN <<>>
    ELSE LET least == CHOOSE w \in ws : \A v \in ws : Cmp(w.URL, v.URL) <= 0
         IN  <<least>> \o SortedByURL(ws \ {least})

(* sort.Search(len(slice), func(i) { slice[i].URL().Cmp(url) >= 0 }): the   *)
(* binary search between i and j, indices counted from 0                    *)
RECURSIVE Search(_, _, _, _)
Search(slice, url, i, j) ==
    IF i < j
    THEN LET h == (i + j) \div 2
         IN  IF ~(Cmp(slice[h + 1].URL, url) >= 0)
             THEN Search(slice, url, h + 1, j)
             ELSE Search(slice, url, i, h)
    ELSE i

(* Mutant: each wallet is appended, wherever the search ends *)
RECURSIVE merge_Appending(_, _)
merge_Appending(slice, axiawallets) ==
    IF axiawallets = <<>> THEN slice
    ELSE merge_Appending(Append(slice, Head(axiawallets)), Tail(axiawallets))

(* merge: each wallet is inserted where the search puts it *)
RECURSIVE merge(_, _)
merge(slice, axiawallets) ==
    IF axiawallets = <<>> THEN slice
    ELSE LET axiawallet == Head(axiawallets)
             n == Search(slice, axiawallet.URL, 0, Len(slice))
         IN  merge(IF n = Len(slice) THEN Append(slice, axiawallet)
                   ELSE SubSeq(slice, 1, n) \o <<axiawallet>>
                        \o SubSeq(slice, n + 1, Len(slice)),
                   Tail(axiawallets))

(* drop: for each wallet, the element where the search ends is removed,     *)
(* unless the search ends past the slice                                    *)
RECURSIVE drop(_, _)
drop(slice, axiawallets) ==
    IF axiawallets = <<>> THEN slice
    ELSE LET axiawallet == Head(axiawallets)
             n == Search(slice, axiawallet.URL, 0, Len(slice))
         IN  drop(IF n = Len(slice) THEN slice
                  ELSE SubSeq(slice, 1, n) \o SubSeq(slice, n + 2, Len(slice)),
                  Tail(axiawallets))

(* NewManager(config, backends...), where read[b] is what backend b         *)
(* returned from AxiaWallets()                                              *)
RECURSIVE MergeAll(_, _, _)
MergeAll(axiawallets, backends, read) ==
    IF backends = <<>> THEN axiawallets
    ELSE MergeAll(merge(axiawallets, SortedByURL(read[Head(backends)])),
                  Tail(backends), read)
NewManager(backends, read) ==
    [constructed |-> TRUE,
     backends |-> [kind \in Kinds |->
                      SelectSeq(backends, LAMBDA b : TypeOf(b) = kind)],
     updaters |-> backends,
     updates |-> <<>>,
     axiawallets |-> MergeAll(<<>>, backends, read),
     feed |-> [subs |-> {}, pending |-> {}],
     term |-> "open"]

(* Manager.Backends and Manager.AxiaWallets *)
Backends(kind) == am.backends[kind]
AxiaWallets == am.axiawallets

NoCall == [kind |-> "none", backend |-> 0, pc |-> "none", reported |-> <<>>]
NoEvent == [Kind |-> "none"]

(* The atomic transactions at rest while the manager, the hub or the       *)
(* handler runs                                                            *)
AtomicTxPartsIdle ==
    /\ utx = NoTx
    /\ creds = <<>>
    /\ rules = Phase(0)
    /\ baseFee = NilBaseFee
    /\ err = Pending
    /\ op = "none"
    /\ state = EmptyState
    /\ state0 = EmptyState
    /\ sharedMemory = {}
    /\ blocks = <<>>
    /\ bootstrapped = FALSE
    /\ parent = 0
    /\ ret = NoRet

(* After NewManager, called with no backend or with backend 1: the cache    *)
(* holds what the backends returned from AxiaWallets(), the update loop     *)
(* waits in its select, and every backend is aware of some of its wallets,  *)
(* not necessarily those it returned before it was subscribed to.           *)
InitManager ==
    /\ AtomicTxPartsIdle
    /\ \E backends \in {<<>>, <<1>>},
          read \in [BackendIDs -> SUBSET AllWallets] :
          /\ \A b \in BackendIDs : read[b] \subseteq WalletsOf(b)
          /\ am = NewManager(backends, read)
    /\ backendWallets \in [BackendIDs -> SUBSET AllWallets]
    /\ \A b \in BackendIDs : backendWallets[b] \subseteq WalletsOf(b)
    /\ calls = [c \in 1..MaxCalls |-> NoCall]
    /\ update = [constructed |-> TRUE, pc |-> "select", errc |-> 0, call |-> 0,
                 event |-> NoEvent, before |-> <<>>]
    /\ hub = NotConstructed
    /\ handler = NotConstructed

(* Whether the manager holds a live subscription to the backend *)
Subscribed(backend) ==
    \E i \in 1..Len(am.updaters) : am.updaters[i] = backend

(* A backend becomes aware of a wallet, or loses one, and sends the event   *)
(* to its subscribers: to am.updates, which must have room, if the manager  *)
(* is subscribed.                                                           *)
BackendSends(backend, kind, axiawallet) ==
    IF Subscribed(backend)
    THEN /\ Len(am.updates) < MaxUpdates
         /\ am' = [am EXCEPT !.updates =
                      Append(@, [Kind |-> kind, AxiaWallet |-> axiawallet])]
    ELSE UNCHANGED am

BackendWalletArrives ==
    /\ \E b \in BackendIDs : \E w \in WalletsOf(b) \ backendWallets[b] :
          /\ backendWallets' = [backendWallets EXCEPT ![b] = @ \cup {w}]
          /\ BackendSends(b, "AxiaWalletArrived", w)
    /\ UNCHANGED <<calls, update, hub, handler>>
    /\ UNCHANGED atomicTxVars

BackendWalletDrops ==
    /\ \E b \in BackendIDs : \E w \in backendWallets[b] :
          /\ backendWallets' = [backendWallets EXCEPT ![b] = @ \ {w}]
          /\ BackendSends(b, "AxiaWalletDropped", w)
    /\ UNCHANGED <<calls, update, hub, handler>>
    /\ UNCHANGED atomicTxVars

(* Manager.update, case event := <-am.updates: the cache is updated under   *)
(* am.lock, which is released before the event is sent on the feed          *)
UpdateWalletEvent ==
    /\ update.pc = "select"
    /\ am.updates # <<>>
    /\ LET event == Head(am.updates)
       IN  /\ am' = [am EXCEPT
                       !.updates = Tail(@),
                       !.axiawallets =
                          IF event.Kind = "AxiaWalletArrived"
                          THEN merge(@, <<event.AxiaWallet>>)
                          ELSE IF event.Kind = "AxiaWalletDropped"
                          THEN drop(@, <<event.AxiaWallet>>)
                          ELSE @]
           /\ update' = [update EXCEPT !.pc = "feed",
                                       !.event = event,
                                       !.before = am.axiawallets]
    /\ UNCHANGED <<backendWallets, calls, hub, handler>>
    /\ UNCHANGED atomicTxVars

(* The loop enters am.feed.Send(event), which is to deliver the event to    *)
(* every listener subscribed at that moment                                 *)
UpdateFeedSendBegins ==
    /\ update.pc = "feed"
    /\ am' = [am EXCEPT !.feed.pending = am.feed.subs]
    /\ update' = [update EXCEPT !.pc = "send"]
    /\ UNCHANGED <<backendWallets, calls, hub, handler>>
    /\ UNCHANGED atomicTxVars

(* am.feed.Send(event) returns once no listener is left to receive the      *)
(* event, and the loop is back at its select                                *)
UpdateFeedSendReturns ==
    /\ update.pc = "send"
    /\ am.feed.pending = {}
    /\ update' = [update EXCEPT !.pc = "select", !.event = NoEvent,
                                !.before = <<>>]
    /\ UNCHANGED <<am, backendWallets, calls, hub, handler>>
    /\ UNCHANGED atomicTxVars

(* Manager.Subscribe: a listener subscribes to the feed, whatever the state *)
(* of the update loop; an event that is being sent is not delivered to it   *)
ManagerSubscribe ==
    /\ \E l \in Listeners \ am.feed.subs :
          am' = [am EXCEPT !.feed.subs = @ \cup {l}]
    /\ UNCHANGED <<backendWallets, calls, update, hub, handler>>
    /\ UNCHANGED atomicTxVars

(* A listener receives from its channel the event that is being sent *)
ListenerReceives ==
    /\ update.pc = "send"
    /\ \E l \in am.feed.pending :
          am' = [am EXCEPT !.feed.pending = @ \ {l}]
    /\ UNCHANGED <<backendWallets, calls, update, hub, handler>>
    /\ UNCHANGED atomicTxVars

(* A listener unsubscribes: an event that is being sent is no longer        *)
(* delivered to it                                                          *)
ListenerUnsubscribes ==
    /\ \E l \in am.feed.subs :
          am' = [am EXCEPT !.feed.subs = @ \ {l},
                           !.feed.pending = @ \ {l}]
    /\ UNCHANGED <<backendWallets, calls, update, hub, handler>>
    /\ UNCHANGED atomicTxVars

(* AddBackend up to its send on am.newBackends, for a backend that is not   *)
(* tracked and that no other call is adding; the call is recorded in the    *)
(* first free place of calls                                                *)
CallAddBackend ==
    /\ \E c \in 1..MaxCalls, b \in BackendIDs :
          /\ calls[c] = NoCall
          /\ \A d \in 1..(c - 1) : calls[d] # NoCall
          /\ \A kind \in Kinds : \A i \in 1..Len(am.backends[kind]) :
                am.backends[kind][i] # b
          /\ \A d \in 1..MaxCalls :
                calls[d].kind = "AddBackend" => calls[d].backend # b
          /\ calls' = [calls EXCEPT ![c] =
                          [kind |-> "AddBackend", backend |-> b,
                           pc |-> "send", reported |-> <<>>]]
    /\ UNCHANGED <<am, backendWallets, update, hub, handler>>
    /\ UNCHANGED atomicTxVars

(* Manager.update, case event := <-am.newBackends: the send of a call of    *)
(* AddBackend is received and, under am.lock, what the backend returns from *)
(* AxiaWallets() is merged into the cache                                   *)
UpdateNewBackend ==
    /\ update.pc = "select"
    /\ \E c \in 1..MaxCalls :
          /\ calls[c].kind = "AddBackend"
          /\ calls[c].pc = "send"
          /\ LET reported == SortedByURL(backendWallets[calls[c].backend])
             IN  /\ am' = [am EXCEPT !.axiawallets = merge(@, reported)]
                 /\ calls' = [calls EXCEPT ![c].pc = "received",
                                           ![c].reported = reported]
          /\ update' = [update EXCEPT !.pc = "subscribe", !.call = c]
    /\ UNCHANGED <<backendWallets, hub, handler>>
    /\ UNCHANGED atomicTxVars

(* Mutant: processed is closed without the backend being subscribed to or   *)
(* added to the backends                                                    *)
UpdateNewBackendSubscribes_ClosesOnly ==
    /\ update.pc = "subscribe"
    /\ calls' = [calls EXCEPT ![update.call].pc = "processed"]
    /\ update' = [update EXCEPT !.pc = "select", !.call = 0]
    /\ UNCHANGED <<am, backendWallets, hub, handler>>
    /\ UNCHANGED atomicTxVars

(* The rest of the case, still under am.lock: the manager subscribes to the *)
(* backend, which may have changed since its wallets were read, the backend *)
(* is added to the backends of its type, and processed is closed            *)
UpdateNewBackendSubscribes ==
    /\ update.pc = "subscribe"
    /\ LET backend == calls[update.call].backend
           kind == TypeOf(backend)
       IN  am' = [am EXCEPT !.updaters = Append(@, backend),
                            !.backends[kind] = Append(@, backend)]
    /\ calls' = [calls EXCEPT ![update.call].pc = "processed"]
    /\ update' = [update EXCEPT !.pc = "select", !.call = 0]
    /\ UNCHANGED <<backendWallets, hub, handler>>
    /\ UNCHANGED atomicTxVars

(* AddBackend: <-done, once processed is closed *)
AddBackendReturns ==
    /\ \E c \in 1..MaxCalls :
          /\ calls[c].kind = "AddBackend"
          /\ calls[c].pc = "processed"
          /\ calls' = [calls EXCEPT ![c].pc = "returned"]
    /\ UNCHANGED <<am, backendWallets, update, hub, handler>>
    /\ UNCHANGED atomicTxVars

(* Close up to its send on am.quit *)
CallClose ==
    /\ \E c \in 1..MaxCalls :
          /\ calls[c] = NoCall
          /\ \A d \in 1..(c - 1) : calls[d] # NoCall
          /\ calls' = [calls EXCEPT ![c] =
                          [kind |-> "Close", backend |-> 0, pc |-> "send",
                           reported |-> <<>>]]
    /\ UNCHANGED <<am, backendWallets, update, hub, handler>>
    /\ UNCHANGED atomicTxVars

(* Manager.update, case errc := <-am.quit: the send of a call of Close is   *)
(* received, and the call waits for the reply                               *)
UpdateQuit ==
    /\ update.pc = "select"
    /\ \E c \in 1..MaxCalls :
          /\ calls[c].kind = "Close"
          /\ calls[c].pc = "send"
          /\ calls' = [calls EXCEPT ![c].pc = "receive"]
          /\ update' = [update EXCEPT !.pc = "reply", !.errc = c]
    /\ UNCHANGED <<am, backendWallets, hub, handler>>
    /\ UNCHANGED atomicTxVars

(* errc <- nil, received by Close, which returns nil *)
UpdateQuitReplies ==
    /\ update.pc = "reply"
    /\ calls[update.errc].pc = "receive"
    /\ calls' = [calls EXCEPT ![update.errc].pc = "returned"]
    /\ update' = [update EXCEPT !.pc = "close term"]
    /\ UNCHANGED <<am, backendWallets, hub, handler>>
    /\ UNCHANGED atomicTxVars

(* close(am.term) and return: the deferred function unsubscribes every      *)
(* updater and clears am.updaters                                           *)
UpdateTerminates ==
    /\ update.pc = "close term"
    /\ am' = [am EXCEPT !.term = "closed", !.updaters = <<>>]
    /\ update' = [update EXCEPT !.pc = "terminated"]
    /\ UNCHANGED <<backendWallets, calls, hub, handler>>
    /\ UNCHANGED atomicTxVars

NextManager ==
    \/ BackendWalletArrives
    \/ BackendWalletDrops
    \/ UpdateWalletEvent
    \/ UpdateFeedSendBegins
    \/ UpdateFeedSendReturns
    \/ ManagerSubscribe
    \/ ListenerReceives
    \/ ListenerUnsubscribes
    \/ CallAddBackend
    \/ UpdateNewBackend
    \/ UpdateNewBackendSubscribes
    \/ AddBackendReturns
    \/ CallClose
    \/ UpdateQuit
    \/ UpdateQuitReplies
    \/ UpdateTerminates

SpecManager == InitManager /\ [][NextManager]_vars

(* The scheduler runs every goroutine that can take a step: the update     *)
(* loop, the callers, and a listener that has an event to receive from its  *)
(* channel; the backends send events, and the listeners subscribe and       *)
(* unsubscribe, as they please.  The select of the update loop picks at     *)
(* random among the cases that are ready, so a case that is ready again and *)
(* again is taken in the end.                                               *)
SpecManagerFair ==
    /\ SpecManager
    /\ WF_vars(ListenerReceives)
    /\ SF_vars(UpdateWalletEvent)
    /\ WF_vars(UpdateFeedSendBegins)
    /\ WF_vars(UpdateFeedSendReturns)
    /\ SF_vars(UpdateNewBackend)
    /\ WF_vars(UpdateNewBackendSubscribes)
    /\ WF_vars(AddBackendReturns)
    /\ SF_vars(UpdateQuit)
    /\ WF_vars(UpdateQuitReplies)
    /\ WF_vars(UpdateTerminates)

(* Whether a sequence of wallets is in non-decreasing order of URL *)
SortedWallets(slice) ==
    \A i \in 1..Len(slice) - 1 : Cmp(slice[i].URL, slice[i + 1].URL) <= 0

(* C34: the wallet cache of the account manager is sorted by URL in every   *)
(* reachable state: after NewManager, and after any sequence of             *)
(* AxiaWalletArrived events, AxiaWalletDropped events and AddBackend calls   *)
(* processed by the update loop, am.axiawallets is in non-decreasing order  *)
(* of URL.                                                                  *)
C34_CacheSortedByURL == SortedWallets(am.axiawallets)

(* An arrival merged between two cached wallets, after a backend was added  *)
C34_Witness ==
    /\ update.event.Kind = "AxiaWalletArrived"
    /\ Len(am.axiawallets) >= 3
    /\ Len(update.before) < Len(am.axiawallets)
    /\ am.axiawallets[1].URL < update.event.AxiaWallet.URL
    /\ update.event.AxiaWallet.URL < am.axiawallets[Len(am.axiawallets)].URL
    /\ Len(am.backends["Hub"]) > 0

---------------------------------------------------------------------------
(* How many times a wallet is in a slice *)
CountIn(slice, axiawallet) ==
    Cardinality({i \in 1..Len(slice) : slice[i] = axiawallet})

(* C35: processing an AxiaWalletDropped event for wallet w (the step of the *)
(* update loop that takes it from am.updates) removes w from the cache if   *)
(* it is cached, and leaves every cached wallet with a URL different from   *)
(* w's in the cache, in particular when w is not cached at all.             *)
C35_DropRemovesOnlyTheWalletNamed ==
    [][(/\ Len(am'.updates) < Len(am.updates)
        /\ Head(am.updates).Kind = "AxiaWalletDropped")
       => LET w == Head(am.updates).AxiaWallet
          IN  /\ CountIn(am.axiawallets, w) > 0
                    => CountIn(am'.axiawallets, w)
                          = CountIn(am.axiawallets, w) - 1
              /\ \A x \in AllWallets :
                    x.URL # w.URL
                       => CountIn(am'.axiawallets, x)
                             = CountIn(am.axiawallets, x)]_vars

---------------------------------------------------------------------------
(* What a manager m answers about a backend and a wallet *)
InBackendsOf(m, backend) ==
    \E i \in 1..Len(m.backends[TypeOf(backend)]) :
       m.backends[TypeOf(backend)][i] = backend
SubscribedIn(m, backend) ==
    \E i \in 1..Len(m.updaters) : m.updaters[i] = backend
AllCachedIn(m, axiawallets) ==
    \A i \in 1..Len(axiawallets) : CountIn(m.axiawallets, axiawallets[i]) > 0

(* C36 (as stated): at the step where AddBackend(b) returns, b is in        *)
(* Backends(type of b), the manager is subscribed to b's wallet events, and *)
(* every wallet b reported is in the list returned by AxiaWallets().        *)
C36_IntegratedWhenAddBackendReturns ==
    [][\A c \in 1..MaxCalls :
          (/\ calls[c].kind = "AddBackend"
           /\ calls[c].pc = "processed"
           /\ calls'[c].pc = "returned")
          => /\ InBackendsOf(am', calls[c].backend)
             /\ SubscribedIn(am', calls[c].backend)
             /\ AllCachedIn(am', calls[c].reported)]_vars

(* C36 (amended): AddBackend(b) returns only after the update loop has      *)
(* integrated b: the step of the loop that closes processed leaves b in     *)
(* Backends(type of b), the manager subscribed to b and every wallet b      *)
(* reported in the cache, and AddBackend returns from no other position.    *)
(* From then on b stays in Backends(type of b); the subscription ends only  *)
(* when the update loop terminates, and a wallet b reported leaves the      *)
(* cache only when the loop processes an AxiaWalletDropped event.           *)
C36_IntegratedBeforeAddBackendReturns ==
    [][\A c \in 1..MaxCalls :
          calls'[c].kind = "AddBackend" =>
             LET b == calls'[c].backend
             IN  /\ (calls[c].pc = "received" /\ calls'[c].pc = "processed")
                       => /\ InBackendsOf(am', b)
                          /\ SubscribedIn(am', b)
                          /\ AllCachedIn(am', calls'[c].reported)
                 /\ calls'[c].pc = "returned"
                       => /\ calls[c].kind = "AddBackend"
                          /\ calls[c].pc \in {"processed", "returned"}
                          /\ InBackendsOf(am', b)
                 /\ (calls[c].kind = "AddBackend"
                     /\ calls[c].pc \in {"processed", "returned"})
                       => /\ InBackendsOf(am', b)
                          /\ (SubscribedIn(am, b) /\ ~SubscribedIn(am', b))
                                => update'.pc = "terminated"
                          /\ \A i \in 1..Len(calls[c].reported) :
                                (/\ CountIn(am.axiawallets,
                                            calls[c].reported[i]) > 0
                                 /\ CountIn(am'.axiawallets,
                                            calls[c].reported[i]) = 0)
                                => /\ Len(am'.updates) < Len(am.updates)
                                   /\ Head(am.updates).Kind
                                         = "AxiaWalletDropped"]_vars

(* AddBackend has returned for a backend that reported a wallet: the        *)
(* backend is in Backends, subscribed to, and its wallet is cached between  *)
(* two others                                                               *)
C36_Witness ==
    \E c \in 1..MaxCalls :
       /\ calls[c].kind = "AddBackend"
       /\ calls[c].pc = "returned"
       /\ Len(calls[c].reported) > 0
       /\ InBackendsOf(am, calls[c].backend)
       /\ SubscribedIn(am, calls[c].backend)
       /\ AllCachedIn(am, calls[c].reported)
       /\ Len(Backends(TypeOf(calls[c].backend))) = 1
       /\ Len(AxiaWallets) >= 2

---------------------------------------------------------------------------
(* C37: callers of the account manager never get stuck: under fair          *)
(* scheduling every call of AddBackend and every call of Close eventually   *)
(* returns, including calls made concurrently with or after a Close that    *)
(* has terminated the update loop.                                          *)
C37_EveryCallReturns ==
    \A c \in 1..MaxCalls :
       (calls[c].kind # "none") ~> (calls[c].pc = "returned")

---------------------------------------------------------------------------
(* The smartcard hub (src/accounts/keystore/axiawallet.go): subscriptions,  *)
(* tracked by hub.updateScope, and the updater goroutines that Subscribe    *)
(* starts and that stop once no subscriber is left.                         *)

(* Bounds: the number of calls of Subscribe and of calls of AxiaWallets *)
MaxSubscriptions == 3
MaxAxiaWalletsCalls == 1

(* The smartcard readers that may be present, in the order of ListReaders *)
Readers == <<"reader 1", "reader 2">>

(* What a scan finds at a reader: no reader ("absent"), a card that         *)
(* answers the ping of its wallet and connects ("answers"), a card that     *)
(* does not answer the ping but connects ("reconnects"), or nothing that    *)
(* answers or connects ("fails")                                            *)
ScanOutcomes == {"absent", "answers", "reconnects", "fails"}

(* refreshAxiaWallets, the part under hub.stateLock, for the readers from i: *)
(* the wallets kept or connected and the events to send.  A reader that is  *)
(* listed and known is pinged, dropped if the ping fails and connected      *)
(* again if it can be; a reader that is listed and unknown is connected if  *)
(* it can be.                                                               *)
RECURSIVE ScanListed(_, _, _, _)
ScanListed(axiawallets, events, scan, i) ==
    IF i > Len(Readers) THEN [axiawallets |-> axiawallets, events |-> events]
    ELSE LET reader == Readers[i]
             known == reader \in axiawallets
             dropped == [AxiaWallet |-> reader, Kind |-> "AxiaWalletDropped"]
             arrived == [AxiaWallet |-> reader, Kind |-> "AxiaWalletArrived"]
         IN  IF scan[reader] = "absent"
             THEN ScanListed(axiawallets, events, scan, i + 1)
             ELSE IF known /\ scan[reader] = "answers"
             THEN ScanListed(axiawallets, events, scan, i + 1)
             ELSE IF scan[reader] = "fails"
             THEN ScanListed(axiawallets \ {reader},
                             IF known THEN Append(events, dropped) ELSE events,
                             scan, i + 1)
             ELSE ScanListed(axiawallets \cup {reader},
                             (IF known THEN Append(events, dropped)
                              ELSE events) \o <<arrived>>,
                             scan, i + 1)

(* The orders in which a range over the map hub.axiawallets may visit the   *)
(* readers: every order                                                     *)
MapOrders ==
    {order \in [1..Len(Readers) -> 1..Len(Readers)] :
        \A i, j \in 1..Len(Readers) : i # j => order[i] # order[j]}

(* The wallets of the readers that were not listed are dropped, in the      *)
(* order in which the range over the map visits them                        *)
RECURSIVE RemoveUnseen(_, _, _, _, _)
RemoveUnseen(axiawallets, events, scan, order, i) ==
    IF i > Len(order) THEN [axiawallets |-> axiawallets, events |-> events]
    ELSE LET reader == Readers[order[i]]
         IN  IF reader \in axiawallets /\ scan[reader] = "absent"
             THEN RemoveUnseen(axiawallets \ {reader},
                               Append(events,
                                      [AxiaWallet |-> reader,
                                       Kind |-> "AxiaWalletDropped"]),
                               scan, order, i + 1)
             ELSE RemoveUnseen(axiawallets, events, scan, order, i + 1)

(* refreshAxiaWallets up to the release of hub.stateLock: nothing changes   *)
(* when the last refresh is too recent (throttled)                         *)
refreshAxiaWallets(axiawallets, throttled, scan, order) ==
    IF throttled THEN [axiawallets |-> axiawallets, events |-> <<>>]
    ELSE LET listed == ScanListed(axiawallets, <<>>, scan, 1)
         IN  RemoveUnseen(listed.axiawallets, listed.events, scan, order, 1)

(* The scans of the model: every reader absent, or one outcome at the first *)
(* reader and the second reader absent or answering                         *)
Scans ==
    {scan \in [{Readers[i] : i \in 1..Len(Readers)} -> ScanOutcomes] :
        scan[Readers[2]] \in {"absent", "answers"}}

(* A goroutine that runs refreshAxiaWallets: its position, the events it    *)
(* has still to send and the subscriptions that have still to receive the   *)
(* event it is sending                                                      *)
Goroutine(pc, events) == [pc |-> pc, events |-> events, pending |-> {}]

(* After NewHub, which has refreshed the wallets once: the wallets of some  *)
(* readers, no subscriber, no updater.  subscriptions holds each            *)
(* subscription made, live or unsubscribed; updaters holds each updater     *)
(* goroutine that has not returned, and callers each call of AxiaWallets    *)
(* that has not returned.                                                   *)
InitHub ==
    /\ AtomicTxPartsIdle
    /\ am = NotConstructed
    /\ backendWallets = <<>>
    /\ calls = <<>>
    /\ update = NotConstructed
    /\ \E scan \in Scans, order \in MapOrders :
          hub = [constructed |-> TRUE,
                 axiawallets |->
                    refreshAxiaWallets({}, FALSE, scan, order).axiawallets,
                 updating |-> FALSE,
                 subscriptions |-> <<>>, updaters |-> <<>>, callers |-> <<>>,
                 calls |-> 0, returned |-> <<>>]
    /\ handler = NotConstructed

(* hub.updateScope.Count() *)
Count == Cardinality({i \in 1..Len(hub.subscriptions) :
                         hub.subscriptions[i] = "live"})

(* Mutant: the updater is started without looking at hub.updating *)
HubSubscribe_AlwaysStarts ==
    /\ Len(hub.subscriptions) < MaxSubscriptions
    /\ hub' = [hub EXCEPT !.subscriptions = Append(@, "live"),
                          !.updating = TRUE,
                          !.updaters = Append(@, Goroutine("sleep", <<>>))]
    /\ UNCHANGED <<am, backendWallets, calls, update, handler>>
    /\ UNCHANGED atomicTxVars

(* Hub.Subscribe, under hub.stateLock: the subscription is tracked and the  *)
(* updater started if none is running                                      *)
HubSubscribe ==
    /\ Len(hub.subscriptions) < MaxSubscriptions
    /\ hub' = [hub EXCEPT !.subscriptions = Append(@, "live"),
                          !.updating = TRUE,
                          !.updaters = IF ~hub.updating
                                       THEN Append(@, Goroutine("sleep", <<>>))
                                       ELSE @]
    /\ UNCHANGED <<am, backendWallets, calls, update, handler>>
    /\ UNCHANGED atomicTxVars

(* Unsubscribe of a tracked subscription: it leaves hub.updateScope and the *)
(* feed, and an event that is being sent is no longer delivered to it       *)
HubUnsubscribe ==
    /\ \E i \in 1..Len(hub.subscriptions) :
          /\ hub.subscriptions[i] = "live"
          /\ hub' = [hub EXCEPT
                        !.subscriptions[i] = "unsubscribed",
                        !.updaters = [j \in 1..Len(@) |->
                                        [@[j] EXCEPT !.pending = @ \ {i}]],
                        !.callers = [j \in 1..Len(@) |->
                                       [@[j] EXCEPT !.pending = @ \ {i}]]]
    /\ UNCHANGED <<am, backendWallets, calls, update, handler>>
    /\ UNCHANGED atomicTxVars

(* Where a goroutine goes after refreshAxiaWallets: to the sends if there   *)
(* are events, else past them                                               *)
AfterRefresh(events, after) ==
    Goroutine(IF events = <<>> THEN after ELSE "send", events)

(* Hub.updater: time.Sleep(refreshCycle) and hub.refreshAxiaWallets() up to *)
(* the release of hub.stateLock                                             *)
HubUpdaterRefreshes ==
    /\ \E i \in 1..Len(hub.updaters) :
       \E throttled \in BOOLEAN, scan \in Scans, order \in MapOrders :
          /\ hub.updaters[i].pc = "sleep"
          /\ LET r == refreshAxiaWallets(hub.axiawallets, throttled, scan,
                                         order)
             IN  hub' = [hub EXCEPT
                           !.axiawallets = r.axiawallets,
                           !.updaters[i] = AfterRefresh(r.events, "check")]
    /\ UNCHANGED <<am, backendWallets, calls, update, handler>>
    /\ UNCHANGED atomicTxVars

(* Hub.AxiaWallets is called: hub.refreshAxiaWallets() up to the release of *)
(* hub.stateLock                                                            *)
HubAxiaWallets ==
    /\ hub.calls < MaxAxiaWalletsCalls
    /\ \E throttled \in BOOLEAN, scan \in Scans, order \in MapOrders :
          LET r == refreshAxiaWallets(hub.axiawallets, throttled, scan, order)
          IN  hub' = [hub EXCEPT
                        !.axiawallets = r.axiawallets,
                        !.calls = @ + 1,
                        !.callers = Append(@, AfterRefresh(r.events, "copy"))]
    /\ UNCHANGED <<am, backendWallets, calls, update, handler>>
    /\ UNCHANGED atomicTxVars

(* Whether some goroutine is inside hub.updateFeed.Send, which admits one   *)
(* sender at a time                                                         *)
FeedSending ==
    \/ \E j \in 1..Len(hub.updaters) : hub.updaters[j].pc = "sending"
    \/ \E j \in 1..Len(hub.callers) : hub.callers[j].pc = "sending"

(* hub.updateFeed.Send(event) is entered by a goroutine of hub[role]: the   *)
(* event is to be delivered to every live subscription                      *)
FeedSendBegins ==
    /\ ~FeedSending
    /\ \E role \in {"updaters", "callers"} : \E i \in 1..Len(hub[role]) :
          /\ hub[role][i].pc = "send"
          /\ hub' = [hub EXCEPT
                        ![role][i].pc = "sending",
                        ![role][i].pending =
                           {k \in 1..Len(hub.subscriptions) :
                               hub.subscriptions[k] = "live"}]
    /\ UNCHANGED <<am, backendWallets, calls, update, handler>>
    /\ UNCHANGED atomicTxVars

(* A subscriber receives from its channel the event that is being sent *)
SubscriberReceives ==
    /\ \E role \in {"updaters", "callers"} : \E i \in 1..Len(hub[role]) :
          /\ hub[role][i].pc = "sending"
          /\ \E k \in hub[role][i].pending :
                hub' = [hub EXCEPT ![role][i].pending = @ \ {k}]
    /\ UNCHANGED <<am, backendWallets, calls, update, handler>>
    /\ UNCHANGED atomicTxVars

(* Send returns once no subscription is left to receive the event; the      *)
(* goroutine sends its next event, or goes on after its last one            *)
FeedSendReturns ==
    /\ \E role \in {"updaters", "callers"} : \E i \in 1..Len(hub[role]) :
          /\ hub[role][i].pc = "sending"
          /\ hub[role][i].pending = {}
          /\ hub' = [hub EXCEPT
                        ![role][i] =
                           AfterRefresh(Tail(@.events),
                                        IF role = "updaters" THEN "check"
                                        ELSE "copy")]
    /\ UNCHANGED <<am, backendWallets, calls, update, handler>>
    /\ UNCHANGED atomicTxVars

(* Hub.AxiaWallets returns, under hub.stateLock, the wallets sorted by URL; *)
(* the URL of a wallet is that of its reader                                *)
HubAxiaWalletsReturns ==
    /\ \E i \in 1..Len(hub.callers) :
          /\ hub.callers[i].pc = "copy"
          /\ hub' = [hub EXCEPT
                        !.callers = SubSeq(@, 1, i - 1)
                                    \o SubSeq(@, i + 1, Len(@)),
                        !.returned =
                           SelectSeq(Readers,
                                     LAMBDA r : r \in hub.axiawallets)]
    /\ UNCHANGED <<am, backendWallets, calls, update, handler>>
    /\ UNCHANGED atomicTxVars

(* Hub.updater, under hub.stateLock: with no subscriber left, updating is   *)
(* cleared and the goroutine returns; otherwise it loops                    *)
HubUpdaterChecks ==
    /\ \E i \in 1..Len(hub.updaters) :
          /\ hub.updaters[i].pc = "check"
          /\ hub' = IF Count = 0
                    THEN [hub EXCEPT
                            !.updating = FALSE,
                            !.updaters =
                               SubSeq(@, 1, i - 1) \o SubSeq(@, i + 1, Len(@))]
                    ELSE [hub EXCEPT !.updaters[i].pc = "sleep"]
    /\ UNCHANGED <<am, backendWallets, calls, update, handler>>
    /\ UNCHANGED atomicTxVars

NextHub ==
    \/ HubSubscribe
    \/ HubUnsubscribe
    \/ HubUpdaterRefreshes
    \/ HubAxiaWallets
    \/ FeedSendBegins
    \/ SubscriberReceives
    \/ FeedSendReturns
    \/ HubAxiaWalletsReturns
    \/ HubUpdaterChecks

SpecHub == InitHub /\ [][NextHub]_vars

(* C38: in every interleaving of Subscribe calls, unsubscriptions and       *)
(* updater iterations of a smartcard hub, at most one updater goroutine     *)
(* runs at a time, hub.updating is true exactly while one is running, and   *)
(* whenever at least one subscription is live an updater is running.        *)
C38_OneUpdaterWhileSubscribed ==
    /\ Len(hub.updaters) <= 1
    /\ hub.updating <=> Len(hub.updaters) = 1
    /\ Count > 0 => Len(hub.updaters) = 1

(* A second updater runs after the first one returned, its subscription     *)
(* made while an earlier one had been cancelled                             *)
C38_Witness ==
    /\ Len(hub.updaters) = 1
    /\ hub.updating
    /\ Count = 2
    /\ Len(hub.subscriptions) = 3
    /\ hub.subscriptions[1] = "unsubscribed"
    /\ hub.updaters[1].pc = "check"

---------------------------------------------------------------------------
(* The waiting response handler (src/peer/waiting_handler.go:13-39): one    *)
(* handler per request, the goroutine that receives from its responseChan,  *)
(* and the one callback, OnResponse or OnFailure, invoked on it.            *)

(* Bound: the number of requests in flight, each with its handler *)
MaxRequests == 2

(* The response bytes a peer may send; NoBytes is what a receive from the   *)
(* closed channel yields                                                    *)
Responses == {<<>>, <<7>>, <<7, 9>>}
NoBytes == "none"

(* newWaitingResponseHandler: an open unbuffered channel, failed = false;   *)
(* no callback invoked and the receiver not yet at its receive. closes      *)
(* counts the calls of close(responseChan).                                 *)
newWaitingResponseHandler ==
    [responseChan |-> "open", closes |-> 0, failed |-> FALSE,
     callback |-> "none", pc |-> "none", response |-> NoBytes,
     receiver |-> "idle", received |-> NoBytes, sawFailed |-> FALSE]

InitHandler ==
    /\ AtomicTxPartsIdle
    /\ am = NotConstructed
    /\ backendWallets = <<>>
    /\ calls = <<>>
    /\ update = NotConstructed
    /\ hub = NotConstructed
    /\ handler = [h \in 1..MaxRequests |-> newWaitingResponseHandler]

(* The requester reaches its receive from responseChan *)
ReceiverWaits ==
    /\ \E h \in 1..MaxRequests :
          /\ handler[h].receiver = "idle"
          /\ handler' = [handler EXCEPT ![h].receiver = "blocked"]
    /\ UNCHANGED <<am, backendWallets, calls, update, hub>>
    /\ UNCHANGED atomicTxVars

(* OnResponse is invoked and reaches its send on responseChan *)
CallOnResponse ==
    /\ \E h \in 1..MaxRequests, response \in Responses :
          /\ handler[h].callback = "none"
          /\ handler' = [handler EXCEPT ![h].callback = "OnResponse",
                                        ![h].pc = "send",
                                        ![h].response = response]
    /\ UNCHANGED <<am, backendWallets, calls, update, hub>>
    /\ UNCHANGED atomicTxVars

(* w.responseChan <- response: the channel has no buffer, so the send       *)
(* completes with the receive of the blocked requester                      *)
OnResponseSends ==
    /\ \E h \in 1..MaxRequests :
          /\ handler[h].pc = "send"
          /\ handler[h].responseChan = "open"
          /\ handler[h].receiver = "blocked"
          /\ handler' = [handler EXCEPT ![h].pc = "close",
                                        ![h].receiver = "received",
                                        ![h].received = handler[h].response]
    /\ UNCHANGED <<am, backendWallets, calls, update, hub>>
    /\ UNCHANGED atomicTxVars

(* Mutant: OnFailure closes the channel and returns, failed left unset *)
CallOnFailure_ClosesOnly ==
    /\ \E h \in 1..MaxRequests :
          /\ handler[h].callback = "none"
          /\ handler' = [handler EXCEPT ![h].callback = "OnFailure",
                                        ![h].responseChan = "closed",
                                        ![h].closes = @ + 1,
                                        ![h].pc = "returned"]
    /\ UNCHANGED <<am, backendWallets, calls, update, hub>>
    /\ UNCHANGED atomicTxVars

(* OnFailure is invoked: w.failed = true *)
CallOnFailure ==
    /\ \E h \in 1..MaxRequests :
          /\ handler[h].callback = "none"
          /\ handler' = [handler EXCEPT ![h].callback = "OnFailure",
                                        ![h].failed = TRUE,
                                        ![h].pc = "close"]
    /\ UNCHANGED <<am, backendWallets, calls, update, hub>>
    /\ UNCHANGED atomicTxVars

(* close(w.responseChan), of OnResponse and of OnFailure, and return nil *)
CallbackCloses ==
    /\ \E h \in 1..MaxRequests :
          /\ handler[h].pc = "close"
          /\ handler' = [handler EXCEPT ![h].responseChan = "closed",
                                        ![h].closes = @ + 1,
                                        ![h].pc = "returned"]
    /\ UNCHANGED <<am, backendWallets, calls, update, hub>>
    /\ UNCHANGED atomicTxVars

(* The receive of the blocked requester returns from the closed channel *)
ReceiverObservesClose ==
    /\ \E h \in 1..MaxRequests :
          /\ handler[h].receiver = "blocked"
          /\ handler[h].responseChan = "closed"
          /\ handler' = [handler EXCEPT ![h].receiver = "received",
                                        ![h].received = NoBytes]
    /\ UNCHANGED <<am, backendWallets, calls, update, hub>>
    /\ UNCHANGED atomicTxVars

(* The requester, unblocked, reads w.failed *)
ReceiverReadsFailed ==
    /\ \E h \in 1..MaxRequests :
          /\ handler[h].receiver = "received"
          /\ handler' = [handler EXCEPT ![h].receiver = "done",
                                        ![h].sawFailed = handler[h].failed]
    /\ UNCHANGED <<am, backendWallets, calls, update, hub>>
    /\ UNCHANGED atomicTxVars

NextHandler ==
    \/ ReceiverWaits
    \/ CallOnResponse
    \/ OnResponseSends
    \/ CallOnFailure
    \/ CallbackCloses
    \/ ReceiverObservesClose
    \/ ReceiverReadsFailed

SpecHandler == InitHandler /\ [][NextHandler]_vars

(* The scheduler runs the callback and the requester whenever they can take *)
(* a step; whether and when a callback is invoked is up to the network.     *)
SpecHandlerFair ==
    /\ SpecHandler
    /\ WF_vars(OnResponseSends)
    /\ WF_vars(CallbackCloses)
    /\ WF_vars(ReceiverObservesClose)
    /\ WF_vars(ReceiverReadsFailed)

(* C39: on a waitingResponseHandler on which exactly one of OnResponse or   *)
(* OnFailure is invoked, responseChan is closed at most once, and exactly   *)
(* once when the callback has returned; a receiver blocked on responseChan  *)
(* eventually unblocks; after OnResponse it has received the response bytes *)
(* and reads failed = false, after OnFailure it has observed the closed     *)
(* channel (no bytes) and reads failed = true.                              *)
C39_ClosedOnceAndReceiverUnblocks ==
    /\ [](\A h \in 1..MaxRequests :
             /\ handler[h].closes <= 1
             /\ handler[h].pc = "returned" => handler[h].closes = 1
             /\ (handler[h].receiver \in {"received", "done"}
                 /\ handler[h].callback = "OnResponse")
                   => /\ handler[h].received = handler[h].response
                      /\ ~handler[h].failed
             /\ (handler[h].receiver \in {"received", "done"}
                 /\ handler[h].callback = "OnFailure")
                   => /\ handler[h].received = NoBytes
                      /\ handler[h].failed
             /\ handler[h].receiver = "done"
                   => (handler[h].sawFailed
                          <=> handler[h].callback = "OnFailure"))
    /\ \A h \in 1..MaxRequests :
          (handler[h].receiver = "blocked" /\ handler[h].callback # "none")
             ~> (handler[h].receiver = "done" /\ handler[h].pc = "returned")

(* One request answered, its bytes received and the channel closed, and one *)
(* failed, its requester unblocked by the close with failed read as true    *)
C39_Witness ==
    /\ handler[1].callback = "OnResponse"
    /\ handler[1].pc = "returned"
    /\ handler[1].receiver = "done"
    /\ handler[1].received = <<7, 9>>
    /\ ~handler[1].sawFailed
    /\ handler[1].closes = 1
    /\ handler[2].callback = "OnFailure"
    /\ handler[2].pc = "returned"
    /\ handler[2].receiver = "done"
    /\ handler[2].received = NoBytes
    /\ handler[2].sawFailed
    /\ handler[2].closes = 1

(***************************************************************************)
(* InputUTXOs of Export transactions                                       *)
(***************************************************************************)

(* Inputs of Export transactions: addresses whose bytes differ in the last *)
(* byte or in the one before it, one of them the byte PackBytes writes as  *)
(* the length of an address; nonces of one and of two bytes; two assets    *)
(* with different amounts.                                                 *)
InputUTXOsAddresses == {1, 2, 20, 256}
InputUTXOsNonces == {0, 1, 256}
InputUTXOsInputs ==
    {[Address |-> a, AssetID |-> x[1], Amount |-> x[2], Nonce |-> n] :
        a \in InputUTXOsAddresses, n \in InputUTXOsNonces,
        x \in {<<1, 1>>, <<2, 5>>}}
InputUTXOsSecondInputs ==
    {[Address |-> 1, AssetID |-> 1, Amount |-> 1, Nonce |-> 1],
     [Address |-> 2, AssetID |-> 2, Amount |-> 5, Nonce |-> 0],
     [Address |-> 256, AssetID |-> 1, Amount |-> 1, Nonce |-> 256]}
InputUTXOsTxs ==
    {[kind |-> "export", Ins |-> <<in>>] : in \in InputUTXOsInputs}
    \cup {[kind |-> "export", Ins |-> <<in, in2>>] :
            in \in InputUTXOsInputs, in2 \in InputUTXOsSecondInputs}

(* InputUTXOs is called on two Export transactions *)
DoInputUTXOs ==
    /\ op = "none"
    /\ \E a \in InputUTXOsTxs, b \in InputUTXOsTxs :
          /\ utx' = a
          /\ ret' = [kind |-> "InputUTXOs", a |-> a, b |-> b,
                     idsA |-> InputUTXOs(a), idsB |-> InputUTXOs(b)]
    /\ op' = "InputUTXOs"
    /\ UNCHANGED <<creds, rules, baseFee, err, state, state0, sharedMemory,
                   blocks, bootstrapped, parent>>
    /\ UNCHANGED concurrentVars

NextInputUTXOs == DoInputUTXOs
SpecInputUTXOs == InitIdle /\ [][NextInputUTXOs]_vars

(* The (address, nonce) pairs of the inputs of a transaction *)
AddressNoncePairs(tx) ==
    {<<tx.Ins[i].Address, tx.Ins[i].Nonce>> : i \in 1..Len(tx.Ins)}

(* C40: the ids InputUTXOs gives two Export transactions overlap exactly    *)
(* when the transactions share an input with the same address and the same *)
(* nonce, whatever the asset and the amount of the inputs; every id is 32   *)
(* bytes, and the two transactions have as many ids as they have distinct  *)
(* (address, nonce) pairs, so that no two pairs are given the same id.      *)
C40_IdsAreTheAddressNoncePairs ==
    op = "InputUTXOs" =>
        /\ (ret.idsA \cap ret.idsB # {})
              <=> (AddressNoncePairs(ret.a) \cap AddressNoncePairs(ret.b) # {})
        /\ \A id \in ret.idsA \cup ret.idsB : Len(id[2]) = 32
        /\ Cardinality(ret.idsA \cup ret.idsB)
              = Cardinality(AddressNoncePairs(ret.a)
                               \cup AddressNoncePairs(ret.b))

(* Two transactions whose first inputs have the same address and nonce but *)
(* another asset and amount, the second having a further input of the same *)
(* nonce at another address: the ids overlap in one id, and there are two  *)
C40_Witness ==
    /\ op = "InputUTXOs"
    /\ Len(ret.a.Ins) = 1
    /\ Len(ret.b.Ins) = 2
    /\ ret.a.Ins[1].Address = 256
    /\ ret.a.Ins[1].Nonce = 256
    /\ ret.b.Ins[1].Address = 2
    /\ ret.b.Ins[1].Nonce = 256
    /\ ret.b.Ins[2].Address = 256
    /\ ret.b.Ins[2].Nonce = 256
    /\ ret.a.Ins[1].AssetID # ret.b.Ins[2].AssetID
    /\ ret.a.Ins[1].Amount # ret.b.Ins[2].Amount
    /\ Cardinality(ret.idsA \cap ret.idsB) = 1
    /\ Cardinality(ret.idsA \cup ret.idsB) = 2

=============================================================================
